---- MODULE Spec2Model ----
(***************************************************************************)
(* The MCP team bridge daemon (src/team/mcp-team-bridge.ts), its task      *)
(* store (src/team/task-file-ops.ts) and its inbox/outbox logs             *)
(* (src/team/inbox-outbox.ts).                                             *)
(*                                                                         *)
(* Spec      : one bridge daemon (runBridge) with its team lead, the       *)
(*             provider child processes and failing I/O steps.             *)
(* SpecInbox : readNewInboxMessages on the bytes of an inbox file.         *)
(***************************************************************************)
EXTENDS Integers, Sequences, FiniteSets, TLC

\* ------------------------------------------------------------------ bounds
MaxFaults == 1         \* I/O operations that throw during one run
MaxInboxMsgs == 1      \* unread inbox records the lead lets pile up
MaxOrphans == 1        \* timed-out provider children that are still alive
outboxMaxLines == 3    \* config.outboxMaxLines of the modelled run
MAX_INBOX_READ_SIZE == 4   \* bytes read per call (10 MiB in the source, scaled)
MaxInboxBytes == 11    \* size the inbox file may grow to
MaxReads == 4          \* readNewInboxMessages calls in one run
MaxMaintenance == 1    \* clearInbox / rotateInboxIfNeeded calls in one run
inboxMaxSizeBytes == 7 \* maxSizeBytes passed to rotateInboxIfNeeded
MaxMaxLines == 4       \* largest maxLines passed to rotateOutboxIfNeeded
MaxOutboxAppends == 7  \* appendOutbox calls in one run of SpecOutbox
MaxOutboxRotations == 3 \* rotateOutboxIfNeeded calls in one run of SpecOutbox
MaxClaimTasks == 2     \* task files in the directory findNextTask scans (SpecClaim)
MaxOtherWrites == 2    \* writes of other processes during one findNextTask call
MaxContentLen == 4     \* characters of the content given to sanitizePromptContent
SubjectMaxLength == 4      \* cap of the subject (500 in the source, scaled)
DescriptionMaxLength == 6  \* cap of the description (10000 in the source, scaled)
MessageMaxLength == 5      \* cap of one inbox message (5000 in the source, scaled)
MAX_INBOX_CONTEXT_SIZE == 28  \* cap of the inbox parts (20000 in the source, scaled)
MAX_PROMPT_SIZE == 64      \* cap of the prompt (50000 in the source, scaled)
MaxPromptMessages == 3     \* inbox messages given to buildTaskPrompt
MaxStdoutLen == 2          \* characters the child writes to stdout
MaxPathLen == 5            \* characters of the candidate path after the leading "/"
MaxBaseLen == 3            \* characters of the base path after the leading "/"
MaxMembers == 3            \* members of the JSON object in a task file
MaxArgs == 4               \* arguments given to normalizeClaudeLaunchArgs

Worker == "w"
\* the requestIds of the shutdown signals the lead may write
RequestIds == {"r1"}
Owners == {Worker, "other"}
\* config.maxRetries of the modelled runs
MaxRetriesChoices == {1, 2, 4}
\* config.maxConsecutiveErrors of the modelled runs (the default)
DefaultMaxConsecutiveErrors == 3
\* the task files the lead may create: task 1 for the worker or for another
\* worker, task 2 for the worker, free or blocked by task 1, task 3 for the
\* worker
LeadTasks ==
  {[id |-> 1, owner |-> o, blockedBy |-> {}] : o \in Owners} \cup
  {[id |-> 2, owner |-> Worker, blockedBy |-> b] : b \in {{}, {1}, {3}}} \cup
  {[id |-> 3, owner |-> Worker, blockedBy |-> {}]}
TaskIds == {f.id : f \in LeadTasks}

VARIABLES
  \* --- runBridge: configuration, locals and position
  maxRetries, maxConsecutiveErrors,
  pc, consecutiveErrors, idleNotified, quarantineNotified, activeChild,
  cur,            \* the task claimed in this cycle (0: none)
  messages,       \* inbox messages read in this cycle and not yet used or dropped
  sdChild,        \* handleShutdown's activeChild argument
  sdRequest,      \* handleShutdown's signal argument (its requestId)
  \* --- the filesystem
  tasks,          \* task id -> task document (status "absent": no file)
  sidecar,        \* task id -> retryCount of the failure sidecar (0: no file)
  outbox,         \* the outbox log, a sequence of messages
  hb,             \* the heartbeat file
  signal,         \* the shutdown signal file: "none", "malformed" or its requestId
  inboxPending,   \* well-formed inbox records after the cursor
  \* --- provider children
  live,           \* number of provider children that are alive
  \* --- history (not read by the program)
  faults,         \* I/O operations that have thrown
  nExec,          \* task id -> CLI executions started
  nFail,          \* task id -> CLI executions whose result promise rejected
  nSent,          \* message kind -> messages appended to the outbox
  idleRun,        \* idle messages after the last task_complete/task_failed
  sigDuringCli,   \* the task whose CLI was running when a valid signal file appeared (0: none)
  termSent,       \* handleShutdown sent SIGTERM to a child
  \* --- readNewInboxMessages on bytes (SpecInbox)
  ibFile,         \* the bytes of the inbox file
  ibCursor,       \* bytesRead of the cursor file (0: also when it is absent)
  ibDelivered,    \* the results of all readNewInboxMessages calls, concatenated
  ibLast,         \* the result of the last call
  ibPrevCursor,   \* the cursor before the last call
  ibCalls,        \* calls made
  ibOnlyRecords,  \* every append so far was one complete well-formed record
  ibMaintPc,      \* position of the running clearInbox / rotateInboxIfNeeded
  ibSnapshot,     \* the content the last rotateInboxIfNeeded read
  ibSnapCount,    \* records delivered when it read
  ibRotations,    \* rotations completed
  ibMaint,        \* clearInbox / rotateInboxIfNeeded calls started
  \* --- rotateOutboxIfNeeded on an outbox file (SpecOutbox)
  obLines,        \* the lines of the outbox file, numbered as they were appended
  obMaxLines,     \* the maxLines argument
  obAppended,     \* lines appended so far
  obRotations,    \* rotateOutboxIfNeeded calls made
  \* --- one findNextTask call beside other writers (SpecClaim)
  ftTasks,        \* task id -> content of the task file
  ftPc,           \* position in findNextTask
  ftId,           \* the id the loop is at
  ftResult,       \* the id of the task the call returned (0: null, or not yet)
  ftClaimed,      \* ids the call wrote its claim marker to
  ftFresh,        \* id -> what the re-read of the call showed
  ftOther,        \* writes of other processes so far
  \* --- sanitizePromptContent on one string (SpecSanitize)
  spContent,      \* the content argument
  spMaxLength,    \* the maxLength argument
  spOut,          \* the results of applying the function once, then again
  \* --- buildTaskPrompt on one task (SpecPrompt)
  ptTask,         \* the task: subject and description
  ptMessages,     \* the inbox messages of the cycle: content and timestamp
  ptConfig,       \* the configuration: workingDirectory
  ptBuilt,        \* what buildTaskPrompt computed (built: it has been called)
  \* --- the result promise of one spawnCliProcess call (SpecSpawn)
  scProvider,     \* the provider argument
  scStdout,       \* stdout accumulated so far
  scStderr,       \* stderr accumulated so far
  scSettled,      \* the settled flag
  scTimer,        \* the timeout timer: armed, cleared or fired
  scEvents,       \* the child events that have been emitted
  scCode,         \* the exit code of the close event ("none": not closed)
  scResult,       \* the state of the promise
  scSettlements,  \* calls of resolve / reject so far
  scKills,        \* SIGTERM signals sent to the child so far
  \* --- validateResolvedPath on one pair of paths (SpecPath)
  vpResolvedPath, \* the resolvedPath argument
  vpExpectedBase, \* the expectedBase argument
  vpResult,       \* "unset" before the call, then "ok" or "throws"
  \* --- one updateTask call on one task file (SpecUpdate)
  utFile,         \* the task file
  utTmp,          \* the temporary file of atomicWriteJson
  utPc,           \* position in updateTask
  utTask,         \* the local variable task
  utUpdates,      \* the updates argument, as Object.entries lists it
  utBefore,       \* the task file before the call (not read by the program)
  \* --- normalizeClaudeLaunchArgs on one argument list (SpecArgs)
  naArgs,         \* the args argument
  naOut,          \* the results of applying the function once, then again
  \* --- two daemon processes of one worker name at one task (SpecRace)
  rcTask,         \* the task file
  rcPc,           \* process id -> position in findNextTask / runBridge
  rcLocal,        \* process id -> the document its running updateTask has read
  \* --- two updateTask calls on one task file (SpecInterleave)
  ilFile,         \* the task file
  ilPc,           \* caller -> position in updateTask
  ilTask,         \* caller -> the local variable task
  ilUpdates,      \* caller -> the updates argument
  ilTmp           \* caller -> the temporary file of atomicWriteJson

daemonVars == <<maxRetries, maxConsecutiveErrors, pc, consecutiveErrors,
                idleNotified, quarantineNotified, activeChild, cur, messages,
                sdChild, sdRequest, tasks, sidecar, outbox, hb, signal, inboxPending,
                live, faults, nExec, nFail, nSent, idleRun,
                sigDuringCli, termSent>>
rotVars == <<obLines, obMaxLines, obAppended, obRotations>>
claimVars == <<ftTasks, ftPc, ftId, ftResult, ftClaimed, ftFresh, ftOther>>
sanVars == <<spContent, spMaxLength, spOut>>
\* the variables of the functions that are checked on their own
promptVars == <<ptTask, ptMessages, ptConfig, ptBuilt>>
spawnVars == <<scProvider, scStdout, scStderr, scSettled, scTimer, scEvents,
               scCode, scResult, scSettlements, scKills>>
pathVars == <<vpResolvedPath, vpExpectedBase, vpResult>>
updVars == <<utFile, utTmp, utPc, utTask, utUpdates, utBefore>>
argVars == <<naArgs, naOut>>
raceVars == <<rcTask, rcPc, rcLocal>>
ilVars == <<ilFile, ilPc, ilTask, ilUpdates, ilTmp>>
concVars == <<raceVars, ilVars>>
libVars == <<pathVars, updVars, argVars, concVars>>
fnVars == <<sanVars, promptVars, spawnVars, libVars>>
\* the functions beside each one
exceptSan == <<promptVars, spawnVars, libVars>>
exceptPrompt == <<sanVars, spawnVars, libVars>>
exceptSpawn == <<sanVars, promptVars, libVars>>
bridgeVars == <<daemonVars, rotVars, claimVars, fnVars>>
maint == <<ibMaintPc, ibSnapshot, ibSnapCount, ibRotations, ibMaint>>
inboxVars == <<ibFile, ibCursor, ibDelivered, ibLast, ibPrevCursor, ibCalls,
               ibOnlyRecords, maint>>
vars == <<bridgeVars, inboxVars>>

\* ------------------------------------------------------------ task store

NoTask == [status |-> "absent", owner |-> "none", blockedBy |-> {},
           claimedBy |-> "none", permanentlyFailed |-> FALSE,
           failedAttempts |-> 0]

\* areBlockersResolved that passes over a blocker whose file is missing
areBlockersResolved_IgnoreMissing(blockedBy) ==
  \A b \in blockedBy : tasks[b].status \in {"completed", "absent"}

\* areBlockersResolved that takes only a blocker that has succeeded
areBlockersResolved_SucceededOnly(blockedBy) ==
  \A b \in blockedBy : tasks[b].status = "completed" /\ ~tasks[b].permanentlyFailed

\* areBlockersResolved: every blocker exists and is completed
areBlockersResolved(blockedBy) ==
  \A b \in blockedBy : tasks[b].status = "completed"

\* candidates that include the tasks left in_progress
Claimable_Resumes(t) ==
  /\ tasks[t].status \in {"pending", "in_progress"}
  /\ tasks[t].owner = Worker
  /\ areBlockersResolved(tasks[t].blockedBy)

\* the candidates findNextTask does not skip
Claimable(t) ==
  /\ tasks[t].status = "pending"
  /\ tasks[t].owner = Worker
  /\ areBlockersResolved(tasks[t].blockedBy)

\* findNextTask: the first claimable id in listTaskIds order (0: null)
findNextTask ==
  IF \E t \in TaskIds : Claimable(t)
  THEN CHOOSE t \in TaskIds : Claimable(t) /\ \A u \in TaskIds : Claimable(u) => t <= u
  ELSE 0

\* writeTaskFailure without the increment of an existing sidecar
writeTaskFailure_NoIncrement(existing) == 1

\* writeTaskFailure: retryCount of the sidecar it writes
writeTaskFailure(existing) == IF existing > 0 THEN existing + 1 ELSE 1

\* isTaskRetryExhausted with > for >=
isTaskRetryExhausted_Strict(t) ==
  IF sidecar[t] = 0 THEN FALSE ELSE sidecar[t] > maxRetries

\* isTaskRetryExhausted that takes the quarantine threshold for maxRetries
isTaskRetryExhausted_ByErrors(t) ==
  IF sidecar[t] = 0 THEN FALSE ELSE sidecar[t] >= maxConsecutiveErrors

\* isTaskRetryExhausted: no sidecar -> false, else retryCount >= maxRetries
isTaskRetryExhausted(t) ==
  IF sidecar[t] = 0 THEN FALSE ELSE sidecar[t] >= maxRetries

\* updateTask(team, t, {status: s})
updateStatus(t, s) == [tasks EXCEPT ![t].status = s]

\* ---------------------------------------------------------------- outbox

\* an outbox message: its type, what it is about (kind), its taskId, the attempt
\* number or error count its text carries (n), and its requestId
Msg(type, kind, taskId, n) ==
  [type |-> type, kind |-> kind, taskId |-> taskId, n |-> n, requestId |-> "none"]

ShutdownAckMsg(requestId) ==
  [type |-> "shutdown_ack", kind |-> "shutdown_ack", taskId |-> 0, n |-> 0,
   requestId |-> requestId]

\* checkShutdownSignal: the parsed signal, null when absent or not parseable
checkShutdownSignal == IF signal \in RequestIds THEN signal ELSE "null"

\* the self-quarantine test with > for >=
quarantined_Late == consecutiveErrors > maxConsecutiveErrors

\* the self-quarantine test with = for >=
quarantined_Exact == consecutiveErrors = maxConsecutiveErrors

\* the self-quarantine test
quarantined == consecutiveErrors >= maxConsecutiveErrors

Last(s) == s[Len(s)]

\* rotateOutboxIfNeeded: more than maxLines lines -> keep the last floor(maxLines/2)
rotateOutboxIfNeeded(lines, maxLines) ==
  IF Len(lines) <= maxLines THEN lines
  ELSE LET keepCount == maxLines \div 2
       IN  IF keepCount = 0 THEN lines   \* slice(-0) keeps every line
           ELSE SubSeq(lines, Len(lines) - keepCount + 1, Len(lines))


\* the message kinds whose appends the history counts
CountedKinds == {"task_complete", "task_failed", "permanent", "quarantine"}

\* appendOutbox, with the history of what was appended
appendOutbox(m) ==
  /\ outbox' = Append(outbox, m)
  /\ nSent' = IF m.kind \in CountedKinds THEN [nSent EXCEPT ![m.kind] = @ + 1]
              ELSE nSent
  /\ idleRun' = IF m.kind = "idle"
                  THEN (IF nSent["task_complete"] + nSent["task_failed"] = 0
                          THEN 0
                          ELSE IF idleRun < 2 THEN idleRun + 1 ELSE 2)
                ELSE IF m.kind \in {"task_complete", "task_failed"} THEN 0
                ELSE idleRun

\* ------------------------------------------------------- runBridge: frame

\* what no step of the bridge, the lead or a child changes
fixed == <<maxRetries, maxConsecutiveErrors, inboxVars, rotVars, claimVars, fnVars>>
flags == <<idleNotified, quarantineNotified>>
cycle == <<cur, messages, sdChild, sdRequest>>
store == <<tasks, sidecar>>
log == <<outbox, nSent, idleRun>>
lead == <<signal, inboxPending, sigDuringCli>>
execs == <<nExec, nFail, termSent>>

\* a cycle without the outer catch: the exception ends runBridge
OuterCatch_Rethrow ==
  /\ faults < MaxFaults
  /\ faults' = faults + 1
  /\ pc' = "done"
  /\ UNCHANGED <<fixed, consecutiveErrors, flags, activeChild, cycle, store, log, hb,
                 lead, live, execs>>

\* the outer catch of the cycle: log, consecutiveErrors++, sleep, resume
OuterCatch ==
  /\ faults < MaxFaults
  /\ faults' = faults + 1
  /\ consecutiveErrors' = consecutiveErrors + 1
  /\ pc' = "sleep"
  /\ messages' = 0
  /\ UNCHANGED <<fixed, flags, activeChild, cur, sdChild, sdRequest, store, log, hb,
                 lead, live, execs>>

\* the catch of the CLI try-block that goes to the end of the cycle without
\* the failure policy
InnerCatchOnThrow_SkipsPolicy ==
  /\ faults < MaxFaults
  /\ faults' = faults + 1
  /\ activeChild' = "null"
  /\ consecutiveErrors' = consecutiveErrors + 1
  /\ pc' = "rotate"
  /\ UNCHANGED <<fixed, flags, cycle, store, log, hb, lead, live, execs>>

\* the catch of the CLI try-block, entered by a throwing step of the success path
InnerCatchOnThrow ==
  /\ faults < MaxFaults
  /\ faults' = faults + 1
  /\ activeChild' = "null"
  /\ consecutiveErrors' = consecutiveErrors + 1
  /\ pc' = "fail_sidecar"
  /\ UNCHANGED <<fixed, flags, cycle, store, log, hb, lead, live, execs>>

Heartbeat(status, task) == [status |-> status, task |-> task]

\* ------------------------------------------------- runBridge: cycle start

\* 1. checkShutdownSignal; 2. the self-quarantine test
CheckShutdown ==
  /\ pc = "check"
  /\ IF checkShutdownSignal # "null"
       THEN /\ pc' = "sd_kill"
            /\ sdChild' = activeChild
            /\ sdRequest' = checkShutdownSignal
       ELSE /\ pc' = IF quarantined THEN "quarantine" ELSE "hb_poll"
            /\ UNCHANGED <<sdChild, sdRequest>>
  /\ UNCHANGED <<fixed, consecutiveErrors, flags, activeChild, cur, messages,
                 store, log, hb, lead, live, faults, execs>>

\* 2. quarantine: the one-time error message
QuarantineNotify ==
  /\ pc = "quarantine"
  /\ \/ /\ ~quarantineNotified
        /\ appendOutbox(Msg("error", "quarantine", 0, consecutiveErrors))
        /\ quarantineNotified' = TRUE
        /\ pc' = "quar_hb"
        /\ UNCHANGED <<fixed, consecutiveErrors, idleNotified, activeChild, cycle,
                       store, hb, lead, live, faults, execs>>
     \/ /\ quarantineNotified
        /\ pc' = "quar_hb"
        /\ UNCHANGED <<fixed, consecutiveErrors, flags, activeChild, cycle,
                       store, log, hb, lead, live, faults, execs>>
     \/ ~quarantineNotified /\ OuterCatch

\* 2. quarantine: the quarantined heartbeat, sleep 3 poll intervals, continue
QuarantineHeartbeat ==
  /\ pc = "quar_hb"
  /\ \/ /\ hb' = Heartbeat("quarantined", 0)
        /\ pc' = "sleep"
        /\ UNCHANGED <<fixed, consecutiveErrors, flags, activeChild, cycle,
                       store, log, lead, live, faults, execs>>
     \/ OuterCatch

\* 3. the polling heartbeat
WritePollingHeartbeat ==
  /\ pc = "hb_poll"
  /\ \/ /\ hb' = Heartbeat("polling", 0)
        /\ pc' = "inbox"
        /\ UNCHANGED <<fixed, consecutiveErrors, flags, activeChild, cycle,
                       store, log, lead, live, faults, execs>>
     \/ OuterCatch

\* 4. readNewInboxMessages: the records after the cursor, cursor persisted
ReadInbox ==
  /\ pc = "inbox"
  /\ \/ /\ messages' = inboxPending
        /\ inboxPending' = 0
        /\ pc' = "find"
        /\ UNCHANGED <<fixed, consecutiveErrors, flags, activeChild, cur, sdChild,
                       sdRequest, store, log, hb, signal, sigDuringCli, live, faults,
                       execs>>
     \/ OuterCatch

\* a cycle that keeps the messages it read when it finds no task
FindTask_KeepsMessages ==
  /\ pc = "find"
  /\ \/ /\ cur' = findNextTask
        /\ IF findNextTask # 0
             THEN /\ tasks' = [tasks EXCEPT ![findNextTask].claimedBy = Worker]
                  /\ idleNotified' = FALSE
                  /\ pc' = "mark"
             ELSE /\ UNCHANGED <<tasks, idleNotified>>
                  /\ pc' = "idle"
        /\ inboxPending' = IF findNextTask # 0 THEN inboxPending ELSE messages
        /\ messages' = IF findNextTask # 0 THEN messages ELSE 0
        /\ UNCHANGED <<fixed, consecutiveErrors, quarantineNotified, activeChild,
                       sdChild, sdRequest, sidecar, log, hb, signal, sigDuringCli,
                       live, faults, execs>>
     \/ findNextTask # 0 /\ OuterCatch

\* 5. findNextTask: the claim marker is written to the task returned
FindTask ==
  /\ pc = "find"
  /\ \/ /\ cur' = findNextTask
        /\ IF findNextTask # 0
             THEN /\ tasks' = [tasks EXCEPT ![findNextTask].claimedBy = Worker]
                  /\ idleNotified' = FALSE
                  /\ pc' = "mark"
                  /\ UNCHANGED messages
             ELSE /\ UNCHANGED <<tasks, idleNotified>>
                  /\ pc' = "idle"
                  /\ messages' = 0      \* no prompt is built in this cycle
        /\ UNCHANGED <<fixed, consecutiveErrors, quarantineNotified, activeChild,
                       sdChild, sdRequest, sidecar, log, hb, lead, live, faults, execs>>
     \/ findNextTask # 0 /\ OuterCatch

\* 6. updateTask(in_progress)
MarkInProgress ==
  /\ pc = "mark"
  /\ \/ /\ tasks' = updateStatus(cur, "in_progress")
        /\ pc' = "hb_exec"
        /\ UNCHANGED <<fixed, consecutiveErrors, flags, activeChild, cycle,
                       sidecar, log, hb, lead, live, faults, execs>>
     \/ OuterCatch

\* 6. the executing heartbeat
WriteExecutingHeartbeat ==
  /\ pc = "hb_exec"
  /\ \/ /\ hb' = Heartbeat("executing", cur)
        /\ pc' = "recheck"
        /\ UNCHANGED <<fixed, consecutiveErrors, flags, activeChild, cycle,
                       store, log, lead, live, faults, execs>>
     \/ OuterCatch

\* re-check of the shutdown signal before the CLI is spawned
RecheckShutdown ==
  /\ pc = "recheck"
  /\ pc' = IF checkShutdownSignal # "null" THEN "revert" ELSE "prompt"
  /\ sdRequest' = checkShutdownSignal
  /\ UNCHANGED <<fixed, consecutiveErrors, flags, activeChild, cur, messages, sdChild,
                 store, log, hb, lead, live, faults, execs>>

\* a pre-spawn shutdown path that leaves the task as it is
RevertBeforeSpawn_NoRevert ==
  /\ pc = "revert"
  /\ sdChild' = "null"
  /\ pc' = "sd_kill"
  /\ messages' = 0
  /\ UNCHANGED <<fixed, consecutiveErrors, flags, activeChild, cur, sdRequest,
                 store, log, hb, lead, live, faults, execs>>

\* updateTask(pending) of the pre-spawn shutdown path, then handleShutdown(.., null)
RevertBeforeSpawn ==
  /\ pc = "revert"
  /\ \/ /\ tasks' = updateStatus(cur, "pending")
        /\ sdChild' = "null"
        /\ pc' = "sd_kill"
        /\ messages' = 0                \* no prompt is built in this cycle
        /\ UNCHANGED <<fixed, consecutiveErrors, flags, activeChild, cur, sdRequest,
                       sidecar, log, hb, lead, live, faults, execs>>
     \/ OuterCatch

\* 7. buildTaskPrompt, writePromptFile, getOutputPath
BuildPrompt ==
  /\ pc = "prompt"
  /\ \/ /\ pc' = "spawn"
        /\ messages' = 0                \* the messages are in the prompt
        /\ UNCHANGED <<fixed, consecutiveErrors, flags, activeChild, cur, sdChild,
                       sdRequest, store, log, hb, lead, live, faults, execs>>
     \/ OuterCatch


\* ------------------------------------------------- runBridge: execution

\* 8. spawnCliProcess: the child is spawned, activeChild = child
SpawnCli ==
  /\ pc = "spawn"
  /\ activeChild' = "child"
  /\ live' = live + 1
  /\ nExec' = [nExec EXCEPT ![cur] = @ + 1]
  /\ pc' = "await"
  /\ UNCHANGED <<fixed, consecutiveErrors, flags, cycle, store, log, hb, lead,
                 faults, nFail, termSent>>

\* the result promise resolves: close with code 0 or non-empty stdout
CliResolves ==
  /\ pc = "await"
  /\ live' = live - 1
  /\ activeChild' = "null"
  /\ pc' = "succ_write"
  /\ UNCHANGED <<fixed, consecutiveErrors, flags, cycle, store, log, hb, lead,
                 faults, execs>>

\* the result promise rejects: close with non-zero code and empty stdout, or a
\* spawn error (closed = TRUE); the timeout or a stdin error, which send SIGTERM
\* and reject without waiting for the child to close (closed = FALSE).
\* The catch block starts: activeChild = null, consecutiveErrors++
\* (first a rejection that comes only when the child has closed, then a catch
\* block that forgets a child that has not closed)
CliRejects_WaitsForClose(closed) ==
  /\ pc = "await"
  /\ live' = live - 1
  /\ activeChild' = "null"
  /\ consecutiveErrors' = consecutiveErrors + 1
  /\ nFail' = [nFail EXCEPT ![cur] = @ + 1]
  /\ pc' = "fail_sidecar"
  /\ UNCHANGED <<fixed, flags, cycle, store, log, hb, lead, faults, nExec, termSent>>

CliRejects_KeepsChild(closed) ==
  /\ pc = "await"
  /\ IF closed THEN live' = live - 1 /\ activeChild' = "null"
               ELSE live <= MaxOrphans /\ live' = live /\ UNCHANGED activeChild
  /\ consecutiveErrors' = consecutiveErrors + 1
  /\ nFail' = [nFail EXCEPT ![cur] = @ + 1]
  /\ pc' = "fail_sidecar"
  /\ UNCHANGED <<fixed, flags, cycle, store, log, hb, lead, faults, nExec, termSent>>

CliRejects(closed) ==
  /\ pc = "await"
  /\ IF closed THEN live' = live - 1
               ELSE live <= MaxOrphans /\ live' = live
  /\ activeChild' = "null"
  /\ consecutiveErrors' = consecutiveErrors + 1
  /\ nFail' = [nFail EXCEPT ![cur] = @ + 1]
  /\ pc' = "fail_sidecar"
  /\ UNCHANGED <<fixed, flags, cycle, store, log, hb, lead, faults, nExec, termSent>>

\* a child that was sent SIGTERM on timeout exits (nothing reads live: the exit
\* is taken while the daemon sleeps)
OrphanExits ==
  /\ pc = "sleep"
  /\ live > 0
  /\ live' = live - 1
  /\ UNCHANGED <<fixed, pc, consecutiveErrors, flags, activeChild, cycle, store,
                 log, hb, lead, faults, execs>>

\* writeFileWithMode(outputFile, response)
WriteOutput ==
  /\ pc = "succ_write"
  /\ \/ /\ pc' = "succ_mark"
        /\ UNCHANGED <<fixed, consecutiveErrors, flags, activeChild, cycle,
                       store, log, hb, lead, live, faults, execs>>
     \/ InnerCatchOnThrow

\* 9. updateTask(completed); consecutiveErrors = 0
MarkCompleted ==
  /\ pc = "succ_mark"
  /\ \/ /\ tasks' = updateStatus(cur, "completed")
        /\ consecutiveErrors' = 0
        /\ pc' = "succ_report"
        /\ UNCHANGED <<fixed, flags, activeChild, cycle, sidecar, log, hb, lead,
                       live, faults, execs>>
     \/ InnerCatchOnThrow

\* 10. appendOutbox(task_complete)
ReportComplete ==
  /\ pc = "succ_report"
  /\ \/ /\ appendOutbox(Msg("task_complete", "task_complete", cur, 0))
        /\ pc' = "rotate"
        /\ UNCHANGED <<fixed, consecutiveErrors, flags, activeChild, cycle,
                       store, hb, lead, live, faults, execs>>
     \/ InnerCatchOnThrow

\* failure state policy: writeTaskFailure
WriteFailureSidecar ==
  /\ pc = "fail_sidecar"
  /\ \/ /\ sidecar' = [sidecar EXCEPT ![cur] = writeTaskFailure(@)]
        /\ pc' = "fail_mark"
        /\ UNCHANGED <<fixed, consecutiveErrors, flags, activeChild, cycle,
                       tasks, log, hb, lead, live, faults, execs>>
     \/ OuterCatch

\* attempt = failure?.retryCount || 1
attempt(t) == IF sidecar[t] = 0 THEN 1 ELSE sidecar[t]

\* failure state policy: retries exhausted -> completed with permanentlyFailed,
\* otherwise back to pending
MarkFailure ==
  /\ pc = "fail_mark"
  /\ \/ /\ IF isTaskRetryExhausted(cur)
             THEN /\ tasks' = [tasks EXCEPT ![cur].status = "completed",
                                            ![cur].permanentlyFailed = TRUE,
                                            ![cur].failedAttempts = attempt(cur)]
                  /\ pc' = "fail_perm_report"
             ELSE /\ tasks' = updateStatus(cur, "pending")
                  /\ pc' = "fail_retry_report"
        /\ UNCHANGED <<fixed, consecutiveErrors, flags, activeChild, cycle,
                       sidecar, log, hb, lead, live, faults, execs>>
     \/ OuterCatch

\* failure state policy: the permanent-failure error message
ReportPermanentFailure ==
  /\ pc = "fail_perm_report"
  /\ \/ /\ appendOutbox(Msg("error", "permanent", cur, attempt(cur)))
        /\ pc' = "rotate"
        /\ UNCHANGED <<fixed, consecutiveErrors, flags, activeChild, cycle,
                       store, hb, lead, live, faults, execs>>
     \/ OuterCatch

\* failure state policy: the task_failed message
ReportTaskFailed ==
  /\ pc = "fail_retry_report"
  /\ \/ /\ appendOutbox(Msg("task_failed", "task_failed", cur, attempt(cur)))
        /\ pc' = "rotate"
        /\ UNCHANGED <<fixed, consecutiveErrors, flags, activeChild, cycle,
                       store, hb, lead, live, faults, execs>>
     \/ OuterCatch

\* the idle branch without idleNotified = true
NotifyIdle_NoFlag ==
  /\ pc = "idle"
  /\ \/ /\ ~idleNotified
        /\ appendOutbox(Msg("idle", "idle", 0, 0))
        /\ pc' = "rotate"
        /\ UNCHANGED <<fixed, consecutiveErrors, flags, activeChild,
                       cycle, store, hb, lead, live, faults, execs>>
     \/ ~idleNotified /\ OuterCatch

\* no task: the one-shot idle message
NotifyIdle ==
  /\ pc = "idle"
  /\ \/ /\ ~idleNotified
        /\ appendOutbox(Msg("idle", "idle", 0, 0))
        /\ idleNotified' = TRUE
        /\ pc' = "rotate"
        /\ UNCHANGED <<fixed, consecutiveErrors, quarantineNotified, activeChild,
                       cycle, store, hb, lead, live, faults, execs>>
     \/ /\ idleNotified
        /\ pc' = "rotate"
        /\ UNCHANGED <<fixed, consecutiveErrors, flags, activeChild, cycle,
                       store, log, hb, lead, live, faults, execs>>
     \/ ~idleNotified /\ OuterCatch

\* 11. rotateOutboxIfNeeded (its failure is swallowed)
RotateOutbox ==
  /\ pc = "rotate"
  /\ outbox' = rotateOutboxIfNeeded(outbox, outboxMaxLines)
  /\ pc' = "sleep"
  /\ UNCHANGED <<fixed, consecutiveErrors, flags, activeChild, cycle, store,
                 nSent, idleRun, hb, lead, live, faults, execs>>

\* 12. the poll sleep ends, the next cycle starts
Sleep ==
  /\ pc = "sleep"
  /\ pc' = "check"
  /\ cur' = 0
  /\ sdRequest' = "null"
  /\ UNCHANGED <<fixed, consecutiveErrors, flags, activeChild, messages, sdChild, store,
                 log, hb, lead, live, faults, execs>>

\* ------------------------------------------------------- handleShutdown

\* 1. a live child gets SIGTERM, and SIGKILL when it has not closed in 5 s
ShutdownKillChild ==
  /\ pc = "sd_kill"
  /\ IF sdChild = "child"
       THEN termSent' = TRUE /\ live' = live - 1
       ELSE UNCHANGED <<termSent, live>>
  /\ pc' = "sd_ack"
  /\ UNCHANGED <<fixed, consecutiveErrors, flags, activeChild, cycle, store,
                 log, hb, lead, faults, nExec, nFail>>

\* handleShutdown that goes on to the signal file without the shutdown_ack
ShutdownAck_Skipped ==
  /\ pc = "sd_ack"
  /\ pc' = "sd_sig"
  /\ UNCHANGED <<fixed, consecutiveErrors, flags, activeChild, cycle,
                 store, log, hb, lead, live, faults, execs>>

\* 2. appendOutbox(shutdown_ack)
ShutdownAck ==
  /\ pc = "sd_ack"
  /\ \/ /\ appendOutbox(ShutdownAckMsg(sdRequest))
        /\ pc' = "sd_sig"
        /\ UNCHANGED <<fixed, consecutiveErrors, flags, activeChild, cycle,
                       store, hb, lead, live, faults, execs>>
     \/ OuterCatch

\* 3. unregisterMcpWorker (errors ignored); 4. deleteShutdownSignal
ShutdownDeleteSignal ==
  /\ pc = "sd_sig"
  /\ signal' = "none"
  /\ pc' = "sd_hb"
  /\ UNCHANGED <<fixed, consecutiveErrors, flags, activeChild, cycle, store,
                 log, hb, inboxPending, sigDuringCli, live, faults, execs>>

\* 5. deleteHeartbeat; 7. killSession ends the process
ShutdownDeleteHeartbeat ==
  /\ pc = "sd_hb"
  /\ hb' = Heartbeat("absent", 0)
  /\ pc' = "done"
  /\ UNCHANGED <<fixed, consecutiveErrors, flags, activeChild, cycle, store,
                 log, lead, live, faults, execs>>

\* ------------------------------------------------------------ team lead
\* The lead is another process and may write at any time.  The daemon reads the
\* task directory only in FindTask, the inbox only in ReadInbox and the signal
\* file only in CheckShutdown and RecheckShutdown, and every other daemon step
\* commutes with the lead's writes; so each write is taken right before the
\* daemon step that can observe it (a signal also while the CLI runs).

\* the lead creates a task file; it numbers its tasks consecutively
LeadCreatesTask(t, owner, blockedBy) ==
  /\ pc = "find"
  /\ tasks[t].status = "absent"
  /\ \A u \in TaskIds : u < t => tasks[u].status # "absent"
  /\ tasks' = [tasks EXCEPT ![t] = [NoTask EXCEPT !.status = "pending",
                                                  !.owner = owner,
                                                  !.blockedBy = blockedBy]]
  /\ UNCHANGED <<fixed, pc, consecutiveErrors, flags, activeChild, cycle, sidecar,
                 log, hb, lead, live, faults, execs>>

\* the lead writes the shutdown signal file (writeShutdownSignal, or any content)
LeadWritesSignal(content) ==
  /\ pc \in {"check", "recheck", "await"}
  /\ signal \notin RequestIds
  /\ signal # content
  /\ signal' = content
  /\ sigDuringCli' = IF content \in RequestIds /\ pc = "await" THEN cur ELSE sigDuringCli
  /\ UNCHANGED <<fixed, pc, consecutiveErrors, flags, activeChild, cycle, store,
                 log, hb, inboxPending, live, faults, execs>>

\* the lead appends a record to the inbox
LeadSendsMessage ==
  /\ pc = "inbox"
  /\ inboxPending < MaxInboxMsgs
  /\ inboxPending' = inboxPending + 1
  /\ UNCHANGED <<fixed, pc, consecutiveErrors, flags, activeChild, cycle, store,
                 log, hb, signal, sigDuringCli, live, faults, execs>>

\* ====================================================================
\* readNewInboxMessages on the bytes of the inbox file (SpecInbox)
\* ====================================================================

NL == "\n"
Whitespace == {" "}
Payload == {"a", "b"}

\* String.prototype.split('\n'): k newlines give k + 1 pieces
RECURSIVE split(_)
split(data) ==
  IF \A i \in 1..Len(data) : data[i] # NL
    THEN <<data>>
    ELSE LET i == CHOOSE k \in 1..Len(data) :
                    data[k] = NL /\ \A j \in 1..(k - 1) : data[j] # NL
         IN <<SubSeq(data, 1, i - 1)>> \o split(SubSeq(data, i + 1, Len(data)))

\* String.prototype.trim
RECURSIVE trim(_)
trim(line) ==
  IF line = <<>> THEN line
  ELSE IF line[1] \in Whitespace THEN trim(Tail(line))
  ELSE IF line[Len(line)] \in Whitespace THEN trim(SubSeq(line, 1, Len(line) - 1))
  ELSE line

\* JSON.parse succeeds on the line: an object "{" payload "}", whitespace around it
JSONParses(line) ==
  LET t == trim(line)
  IN /\ Len(t) >= 2
     /\ t[1] = "{" /\ t[Len(t)] = "}"
     /\ \A i \in 2..(Len(t) - 1) : t[i] \in Payload

\* JSON.parse(line): the decoded record, here its payload
JSONparse(line) == LET t == trim(line) IN SubSeq(t, 2, Len(t) - 1)

\* the line loop of readNewInboxMessages from line i on
RECURSIVE lineLoop(_, _, _, _, _)
lineLoop(lines, i, bytesProcessed, msgs, lastNewlineOffset) ==
  IF i > Len(lines)
    THEN [messages |-> msgs, lastNewlineOffset |-> lastNewlineOffset]
    ELSE LET line == lines[i]
             processed == bytesProcessed + Len(line) + 1
         IN IF trim(line) = <<>>
              THEN lineLoop(lines, i + 1, processed, msgs, lastNewlineOffset)
            ELSE IF JSONParses(line)
              THEN lineLoop(lines, i + 1, processed,
                            Append(msgs, JSONparse(line)), processed)
            ELSE [messages |-> msgs, lastNewlineOffset |-> lastNewlineOffset]

Min(a, b) == IF a <= b THEN a ELSE b

\* readNewInboxMessages
readNewInboxMessages ==
  /\ ibCalls < MaxReads
  /\ ibCalls' = ibCalls + 1
  /\ ibPrevCursor' = ibCursor
  /\ LET size == Len(ibFile)
         offset == IF size < ibCursor THEN 0 ELSE ibCursor
     IN IF size <= offset
          THEN /\ ibLast' = <<>>
               /\ UNCHANGED <<ibCursor, ibDelivered>>
          ELSE LET cappedSize == Min(size - offset, MAX_INBOX_READ_SIZE)
                   newData == SubSeq(ibFile, offset + 1, offset + cappedSize)
                   r == lineLoop(split(newData), 1, 0, <<>>, 0)
                   newOffset == offset + r.lastNewlineOffset
               IN /\ ibLast' = r.messages
                  /\ ibDelivered' = ibDelivered \o r.messages
                  /\ ibCursor' = IF newOffset > offset THEN newOffset ELSE offset
  /\ UNCHANGED <<bridgeVars, ibFile, ibOnlyRecords, maint>>

\* what the lead appends in one write: a record, a record longer than the read
\* window, a record without its newline, a bare newline, a torn record and its
\* rest
Record(c) == <<"{", c, "}", NL>>
LongRecord == <<"{">> \o [i \in 1..MAX_INBOX_READ_SIZE |-> "a"] \o <<"}", NL>>
Records == {Record(c) : c \in Payload} \cup {LongRecord}
Chunks == Records \cup {<<"{", "a", "}">>, <<NL>>, <<"{", "a">>, <<"}", NL>>}

\* the lead appends to the inbox file
LeadAppends(chunk) ==
  /\ Len(ibFile) + Len(chunk) <= MaxInboxBytes
  /\ ibFile' = ibFile \o chunk
  /\ ibOnlyRecords' = (ibOnlyRecords /\ chunk \in Records)
  /\ UNCHANGED <<bridgeVars, ibCursor, ibDelivered, ibLast, ibPrevCursor, ibCalls,
                 maint>>

\* ------------------------------------------- clearInbox, rotateInboxIfNeeded

\* what neither clearInbox nor rotateInboxIfNeeded touches
reads == <<ibDelivered, ibLast, ibPrevCursor, ibCalls, ibOnlyRecords>>

\* clearInbox: the inbox file is truncated
ClearInboxTruncate ==
  /\ ibMaintPc = "none"
  /\ ibMaint < MaxMaintenance
  /\ ibMaint' = ibMaint + 1
  /\ ibFile' = <<>>
  /\ ibMaintPc' = "cleared"
  /\ UNCHANGED <<bridgeVars, reads, ibCursor, ibSnapshot, ibSnapCount, ibRotations>>

\* clearInbox: the cursor file is reset
ClearInboxResetCursor ==
  /\ ibMaintPc = "cleared"
  /\ ibCursor' = 0
  /\ ibMaintPc' = "none"
  /\ UNCHANGED <<bridgeVars, reads, ibFile, ibSnapshot, ibSnapCount, ibRotations,
                 ibMaint>>

\* Array.prototype.join('\n')
RECURSIVE join(_)
join(lines) ==
  IF lines = <<>> THEN <<>>
  ELSE IF Len(lines) = 1 THEN lines[1]
  ELSE lines[1] \o <<NL>> \o join(Tail(lines))

\* content.split('\n').filter(l => l.trim())
nonBlankLines(content) == SelectSeq(split(content), LAMBDA l : trim(l) # <<>>)

Max(a, b) == IF a >= b THEN a ELSE b

\* what rotateInboxIfNeeded writes for the content it read
rotatedInbox(content) ==
  LET lines == nonBlankLines(content)
      keepCount == Max(1, Len(lines) \div 2)
      kept == SubSeq(lines, Max(1, Len(lines) - keepCount + 1), Len(lines))
  IN join(kept) \o <<NL>>

\* rotateInboxIfNeeded: stat and read of the inbox file
RotateInboxRead ==
  /\ ibMaintPc = "none"
  /\ ibMaint < MaxMaintenance
  /\ Len(ibFile) > inboxMaxSizeBytes
  /\ ibMaint' = ibMaint + 1
  /\ ibSnapshot' = ibFile
  /\ ibSnapCount' = Len(ibDelivered)
  /\ ibMaintPc' = "read"
  /\ UNCHANGED <<bridgeVars, reads, ibFile, ibCursor, ibRotations>>

\* rotateInboxIfNeeded: the kept lines replace the inbox file (temp file, rename)
RotateInboxRename ==
  /\ ibMaintPc = "read"
  /\ ibFile' = rotatedInbox(ibSnapshot)
  /\ ibMaintPc' = "renamed"
  /\ UNCHANGED <<bridgeVars, reads, ibCursor, ibSnapshot, ibSnapCount, ibRotations,
                 ibMaint>>

\* rotateInboxIfNeeded: the cursor file is reset
RotateInboxResetCursor ==
  /\ ibMaintPc = "renamed"
  /\ ibCursor' = 0
  /\ ibRotations' = ibRotations + 1
  /\ ibMaintPc' = "none"
  /\ UNCHANGED <<bridgeVars, reads, ibFile, ibSnapshot, ibSnapCount, ibMaint>>

\* ====================================================================
\* rotateOutboxIfNeeded on an outbox file (SpecOutbox)
\* ====================================================================

\* appendOutbox: one more line
OutboxAppend ==
  /\ obAppended < MaxOutboxAppends
  /\ obAppended' = obAppended + 1
  /\ obLines' = Append(obLines, obAppended + 1)
  /\ UNCHANGED <<daemonVars, inboxVars, claimVars, fnVars, obMaxLines, obRotations>>

\* rotateOutboxIfNeeded(maxLines) on an existing outbox file
OutboxRotate ==
  /\ obLines # <<>>
  /\ obRotations < MaxOutboxRotations
  /\ obRotations' = obRotations + 1
  /\ obLines' = rotateOutboxIfNeeded(obLines, obMaxLines)
  /\ UNCHANGED <<daemonVars, inboxVars, claimVars, fnVars, obMaxLines, obAppended>>

\* ====================================================================
\* findNextTask step by step, beside other processes (SpecClaim)
\* ====================================================================

FtIds == 1..MaxClaimTasks

\* readTask of a missing or malformed file: null
FtNoTask == [status |-> "absent", owner |-> "none", blockedBy |-> {},
             claimedBy |-> "none", claimPid |-> "none"]

\* no re-read of this id yet
FtNotReread == [FtNoTask EXCEPT !.status = "unread"]

\* areBlockersResolved on the files of this directory
ftBlockersResolved(blockedBy) ==
  \A b \in blockedBy : ftTasks[b].status = "completed"

\* the filter of the loop: null, not pending, not owned, blocked -> continue
ftCandidate(t) ==
  /\ ftTasks[t].status # "absent"
  /\ ftTasks[t].status = "pending"
  /\ ftTasks[t].owner = Worker
  /\ ftBlockersResolved(ftTasks[t].blockedBy)

\* the re-read check without the comparison of claimPid
claimVerified_NoPid(freshTask) ==
  /\ freshTask.status # "absent"
  /\ freshTask.status = "pending"
  /\ freshTask.claimedBy = Worker

\* the re-read check: the task exists, is pending and carries this worker's
\* name and this process's pid
claimVerified(freshTask) ==
  /\ freshTask.status # "absent"
  /\ freshTask.status = "pending"
  /\ freshTask.claimedBy = Worker
  /\ freshTask.claimPid = "self"

ftUnchanged == UNCHANGED <<daemonVars, rotVars, inboxVars, fnVars>>

\* readTask and the filter: a skipped id
FindNextSkip ==
  /\ ftPc = "read" /\ ftId \in FtIds
  /\ ~ftCandidate(ftId)
  /\ ftId' = ftId + 1
  /\ UNCHANGED <<ftTasks, ftPc, ftResult, ftClaimed, ftFresh, ftOther>>
  /\ ftUnchanged

\* readTask and the filter: a candidate
FindNextCandidate ==
  /\ ftPc = "read" /\ ftId \in FtIds
  /\ ftCandidate(ftId)
  /\ ftPc' = "claim"
  /\ UNCHANGED <<ftTasks, ftId, ftResult, ftClaimed, ftFresh, ftOther>>
  /\ ftUnchanged

\* updateTask({claimedBy, claimedAt, claimPid}): reads the file again, merges
\* the marker and writes; throws when the file is gone
FindNextClaim ==
  /\ ftPc = "claim"
  /\ IF ftTasks[ftId].status = "absent"
       THEN /\ ftPc' = "threw"
            /\ UNCHANGED <<ftTasks, ftClaimed, ftResult>>
       ELSE /\ ftTasks' = [ftTasks EXCEPT ![ftId].claimedBy = Worker,
                                           ![ftId].claimPid = "self"]
            /\ ftClaimed' = ftClaimed \cup {ftId}
            /\ ftPc' = "wait"
            /\ UNCHANGED ftResult
  /\ UNCHANGED <<ftId, ftFresh, ftOther>>
  /\ ftUnchanged

\* after the 50 ms: re-read and verify; return freshTask or continue
FindNextVerify ==
  /\ ftPc = "wait"
  /\ ftFresh' = [ftFresh EXCEPT ![ftId] = ftTasks[ftId]]
  /\ IF claimVerified(ftTasks[ftId])
       THEN /\ ftResult' = ftId
            /\ ftPc' = "done"
            /\ UNCHANGED ftId
       ELSE /\ ftId' = ftId + 1
            /\ ftPc' = "read"
            /\ UNCHANGED ftResult
  /\ UNCHANGED <<ftTasks, ftClaimed, ftOther>>
  /\ ftUnchanged

\* the loop is through: return null
FindNextNull ==
  /\ ftPc = "read" /\ ftId \notin FtIds
  /\ ftResult' = 0
  /\ ftPc' = "done"
  /\ UNCHANGED <<ftTasks, ftId, ftClaimed, ftFresh, ftOther>>
  /\ ftUnchanged

\* another process writes its claim marker to a task file (a worker of another
\* name, or a second process of this worker's name)
OtherClaims(t, name) ==
  /\ ftPc \notin {"done", "threw"} /\ ftOther < MaxOtherWrites
  /\ ftTasks[t].status # "absent"
  /\ ftTasks' = [ftTasks EXCEPT ![t].claimedBy = name, ![t].claimPid = "other"]
  /\ ftOther' = ftOther + 1
  /\ UNCHANGED <<ftPc, ftId, ftResult, ftClaimed, ftFresh>>
  /\ ftUnchanged

\* another process moves a task on
OtherUpdatesStatus(t, status) ==
  /\ ftPc \notin {"done", "threw"} /\ ftOther < MaxOtherWrites
  /\ ftTasks[t].status # "absent" /\ ftTasks[t].status # status
  /\ ftTasks' = [ftTasks EXCEPT ![t].status = status]
  /\ ftOther' = ftOther + 1
  /\ UNCHANGED <<ftPc, ftId, ftResult, ftClaimed, ftFresh>>
  /\ ftUnchanged

\* the task file is removed
OtherDeletes(t) ==
  /\ ftPc \notin {"done", "threw"} /\ ftOther < MaxOtherWrites
  /\ ftTasks[t].status # "absent"
  /\ ftTasks' = [ftTasks EXCEPT ![t] = FtNoTask]
  /\ ftOther' = ftOther + 1
  /\ UNCHANGED <<ftPc, ftId, ftResult, ftClaimed, ftFresh>>
  /\ ftUnchanged

\* ====================================================================
\* sanitizePromptContent and buildTaskPrompt (SpecSanitize, SpecPrompt)
\* ====================================================================
\* A string is a sequence of characters.  The three delimiter names are one
\* character each, so that <TASK_SUBJECT> is the three characters "<",
\* "TASK_SUBJECT", ">" and its escaped form has the same length, as in the
\* source.

TagNames == {"TASK_SUBJECT", "TASK_DESCRIPTION", "INBOX_MESSAGE"}

\* content.slice(0, n)
slice(content, n) == SubSeq(content, 1, Min(n, Len(content)))

\* sanitized.replace(/<(\/?)(NAME)>/g, '[$1$2]'): every match, left to right
RECURSIVE replaceTag(_, _)
replaceTag(s, name) ==
  IF s = <<>> THEN <<>>
  ELSE IF Len(s) >= 3 /\ s[1] = "<" /\ s[2] = name /\ s[3] = ">"
    THEN <<"[", name, "]">> \o replaceTag(SubSeq(s, 4, Len(s)), name)
  ELSE IF Len(s) >= 4 /\ s[1] = "<" /\ s[2] = "/" /\ s[3] = name /\ s[4] = ">"
    THEN <<"[", "/", name, "]">> \o replaceTag(SubSeq(s, 5, Len(s)), name)
  ELSE <<Head(s)>> \o replaceTag(Tail(s), name)

\* sanitizePromptContent that cuts one character late
sanitizePromptContent_CutLate(content, maxLength) ==
  replaceTag(replaceTag(replaceTag(
      IF Len(content) > maxLength THEN slice(content, maxLength + 1) ELSE content,
      "TASK_SUBJECT"), "TASK_DESCRIPTION"), "INBOX_MESSAGE")

\* sanitizePromptContent: truncate to maxLength, then escape the three tags
sanitizePromptContent(content, maxLength) ==
  replaceTag(replaceTag(replaceTag(
      IF Len(content) > maxLength THEN slice(content, maxLength) ELSE content,
      "TASK_SUBJECT"), "TASK_DESCRIPTION"), "INBOX_MESSAGE")

\* the variables of the daemon and of the other file operations
baseVars == <<daemonVars, rotVars, claimVars, inboxVars>>

\* sanitizePromptContent applied to the content, then to its own result
SanitizeCall ==
  /\ Len(spOut) < 2
  /\ spOut' = Append(spOut,
        sanitizePromptContent(IF spOut = <<>> THEN spContent ELSE spOut[Len(spOut)],
                              spMaxLength))
  /\ UNCHANGED <<baseVars, exceptSan, spContent, spMaxLength>>

\* `[${m.timestamp}] <INBOX_MESSAGE>${sanitizedMsg}</INBOX_MESSAGE>`
inboxPart(m) ==
  <<"[">> \o m.timestamp \o <<"]", " ", "<", "INBOX_MESSAGE", ">">>
    \o sanitizePromptContent(m.content, MessageMaxLength)
    \o <<"<", "/", "INBOX_MESSAGE", ">">>

\* the loop over the messages that goes on after a part that does not fit
RECURSIVE inboxParts_Continue(_, _)
inboxParts_Continue(msgs, totalInboxSize) ==
  IF msgs = <<>> THEN <<>>
  ELSE LET part == inboxPart(Head(msgs))
       IN  IF totalInboxSize + Len(part) > MAX_INBOX_CONTEXT_SIZE
             THEN inboxParts_Continue(Tail(msgs), totalInboxSize)
             ELSE <<part>> \o inboxParts_Continue(Tail(msgs),
                                                  totalInboxSize + Len(part))

\* the loop over the messages: inboxParts, until the first part that does not fit
RECURSIVE inboxParts(_, _)
inboxParts(msgs, totalInboxSize) ==
  IF msgs = <<>> THEN <<>>
  ELSE LET part == inboxPart(Head(msgs))
       IN  IF totalInboxSize + Len(part) > MAX_INBOX_CONTEXT_SIZE
             THEN <<>>
             ELSE <<part>> \o inboxParts(Tail(msgs), totalInboxSize + Len(part))

\* inboxContext: empty without messages, else header, joined parts, newline
inboxContextOf(msgs) ==
  IF Len(msgs) > 0
    THEN <<"text">> \o join(inboxParts(msgs, 0)) \o <<NL>>
    ELSE <<>>

\* the template of the prompt; "text" stands for a fixed piece of it
promptTemplate(sanitizedSubject, sanitizedDescription, workingDirectory, inboxContext) ==
  <<"text", "<", "TASK_SUBJECT", ">">> \o sanitizedSubject
    \o <<"<", "/", "TASK_SUBJECT", ">", "text", "<", "TASK_DESCRIPTION", ">">>
    \o sanitizedDescription
    \o <<"<", "/", "TASK_DESCRIPTION", ">", "text">> \o workingDirectory \o <<NL>>
    \o inboxContext \o <<"text">>

\* buildTaskPrompt, with the intermediate values it computes
buildTaskPrompt(task, msgs, config) ==
  LET sanitizedSubject == sanitizePromptContent(task.subject, SubjectMaxLength)
      sanitizedDescription == sanitizePromptContent(task.description, DescriptionMaxLength)
      inboxContext == inboxContextOf(msgs)
      first == promptTemplate(sanitizedSubject, sanitizedDescription,
                              config.workingDirectory, inboxContext)
      overBy == Len(first) - MAX_PROMPT_SIZE
      truncated == slice(sanitizedDescription, Max(0, Len(sanitizedDescription) - overBy))
  IN  [built |-> TRUE,
       sanitizedSubject |-> sanitizedSubject,
       firstDescription |-> sanitizedDescription,
       parts |-> IF Len(msgs) > 0 THEN inboxParts(msgs, 0) ELSE <<>>,
       inboxContext |-> inboxContext,
       first |-> first,
       sanitizedDescription |->
         IF Len(first) > MAX_PROMPT_SIZE THEN truncated ELSE sanitizedDescription,
       result |->
         IF Len(first) > MAX_PROMPT_SIZE
           THEN promptTemplate(sanitizedSubject, truncated,
                               config.workingDirectory, inboxContext)
           ELSE first]

\* buildTaskPrompt has not been called
NotBuilt ==
  [built |-> FALSE, sanitizedSubject |-> <<>>, firstDescription |-> <<>>,
   parts |-> <<>>, inboxContext |-> <<>>, first |-> <<>>,
   sanitizedDescription |-> <<>>, result |-> <<>>]

\* one call of buildTaskPrompt
BuildTaskPromptCall ==
  /\ ~ptBuilt.built
  /\ ptBuilt' = buildTaskPrompt(ptTask, ptMessages, ptConfig)
  /\ UNCHANGED <<baseVars, exceptPrompt, ptTask, ptMessages, ptConfig>>

\* ====================================================================
\* validateResolvedPath (src/team/fs-utils.ts)
\* ====================================================================
\* Paths are strings of characters; "/" separates the segments.

\* the segments of a path: the pieces between the separators, empty ones too
RECURSIVE splitPath(_)
splitPath(path) ==
  IF path = <<>> THEN << <<>> >>
  ELSE LET rest == splitPath(Tail(path)) IN
       IF Head(path) = "/" THEN << <<>> >> \o rest
       ELSE << <<Head(path)>> \o Head(rest) >> \o Tail(rest)

\* the segments put together with separators
RECURSIVE joinPath(_)
joinPath(segs) ==
  IF segs = <<>> THEN <<>>
  ELSE IF Len(segs) = 1 THEN segs[1]
  ELSE segs[1] \o <<"/">> \o joinPath(Tail(segs))

DotDot == <<".", ".">>

\* path.resolve's normalisation of an absolute path: empty and "." segments
\* are dropped, ".." removes the segment before it and is dropped at the root
RECURSIVE normalizeSegments(_, _)
normalizeSegments(segs, out) ==
  IF segs = <<>> THEN out
  ELSE LET seg == Head(segs) IN
       normalizeSegments(Tail(segs),
         IF seg = <<>> \/ seg = <<".">> THEN out
         ELSE IF seg = DotDot
                THEN (IF out = <<>> THEN out ELSE SubSeq(out, 1, Len(out) - 1))
         ELSE Append(out, seg))

isAbsolute(path) == path # <<>> /\ path[1] = "/"

\* path.resolve(from, to) for an absolute from
resolve(from, to) ==
  <<"/">> \o joinPath(normalizeSegments(
     splitPath(IF isAbsolute(to) THEN to ELSE from \o <<"/">> \o to), <<>>))

\* the length of the longest common prefix of two segment lists
RECURSIVE commonSegments(_, _)
commonSegments(a, b) ==
  IF a = <<>> \/ b = <<>> \/ Head(a) # Head(b) THEN 0
  ELSE 1 + commonSegments(Tail(a), Tail(b))

\* path.relative(from, to) for two resolved paths: one ".." for every segment
\* of from below the common directory, then the segments of to below it
relative(from, to) ==
  LET fs == normalizeSegments(splitPath(from), <<>>)
      ts == normalizeSegments(splitPath(to), <<>>)
      c == commonSegments(fs, ts)
  IN IF from = to THEN <<>>
     ELSE joinPath([i \in 1..(Len(fs) - c) |-> DotDot] \o SubSeq(ts, c + 1, Len(ts)))

\* String.prototype.startsWith
startsWith(str, prefix) ==
  Len(str) >= Len(prefix) /\ SubSeq(str, 1, Len(prefix)) = prefix

\* validateResolvedPath: "throws" or "ok"
validateResolvedPath(resolvedPath, expectedBase) ==
  LET absResolved == resolve(<<"/">>, resolvedPath)
      absBase == resolve(<<"/">>, expectedBase)
      rel == relative(absBase, absResolved)
  IN IF startsWith(rel, DotDot) \/ resolve(absBase, rel) # absResolved
       THEN "throws" ELSE "ok"

\* one call of validateResolvedPath
ValidateCall ==
  /\ vpResult = "unset"
  /\ vpResult' = validateResolvedPath(vpResolvedPath, vpExpectedBase)
  /\ UNCHANGED <<baseVars, sanVars, promptVars, spawnVars, updVars, argVars, concVars,
                 vpResolvedPath, vpExpectedBase>>

\* ====================================================================
\* updateTask and atomicWriteJson (src/team/task-file-ops.ts, fs-utils.ts)
\* ====================================================================
\* A file is missing, holds text that JSON.parse rejects, or holds a JSON
\* object: its members in the order of the text, a key possibly more than
\* once, written with some indentation.  An object in memory is a sequence of
\* members with distinct keys, in insertion order.

\* the absent file
NoFile == [kind |-> "missing", pairs |-> <<>>, indent |-> 0]

\* a file that JSON.parse rejects
MalformedFile == [kind |-> "malformed", pairs |-> <<>>, indent |-> 0]

\* task[key] = value: an own key keeps its place, a new one goes last
setField(obj, key, value) ==
  IF \E i \in 1..Len(obj) : obj[i].key = key
    THEN [i \in 1..Len(obj) |->
            IF obj[i].key = key THEN [key |-> key, value |-> value] ELSE obj[i]]
    ELSE Append(obj, [key |-> key, value |-> value])

\* JSON.parse of an object text: the members are set one after the other
RECURSIVE JSONparseObject(_, _)
JSONparseObject(pairs, obj) ==
  IF pairs = <<>> THEN obj
  ELSE JSONparseObject(Tail(pairs), setField(obj, Head(pairs).key, Head(pairs).value))

\* JSON.stringify(data, null, 2) + '\n'
JSONstringify(obj) == [kind |-> "json", pairs |-> obj, indent |-> 2]

\* a merge that assigns every entry, the undefined ones too
RECURSIVE mergeUpdates_AssignUndefined(_, _)
mergeUpdates_AssignUndefined(task, entries) ==
  IF entries = <<>> THEN task
  ELSE mergeUpdates_AssignUndefined(
         setField(task, Head(entries).key, Head(entries).value), Tail(entries))

\* the loop over Object.entries(updates): entries that are not undefined are set
RECURSIVE mergeUpdates(_, _)
mergeUpdates(task, entries) ==
  IF entries = <<>> THEN task
  ELSE mergeUpdates(
         IF Head(entries).value # "undefined"
           THEN setField(task, Head(entries).key, Head(entries).value)
           ELSE task,
         Tail(entries))

\* what an updateTask step leaves alone
utUnchanged ==
  UNCHANGED <<baseVars, sanVars, promptVars, spawnVars, pathVars, argVars, concVars,
              utUpdates, utBefore>>

\* readFileSync and JSON.parse; either failing throws "not found or malformed"
UpdateRead ==
  /\ utPc = "read"
  /\ IF utFile.kind = "json"
       THEN utTask' = JSONparseObject(utFile.pairs, <<>>) /\ utPc' = "merge"
       ELSE utPc' = "threw" /\ UNCHANGED utTask
  /\ UNCHANGED <<utFile, utTmp>>
  /\ utUnchanged

\* the updates are merged into the task
UpdateMerge ==
  /\ utPc = "merge"
  /\ utTask' = mergeUpdates(utTask, utUpdates)
  /\ utPc' = "write"
  /\ UNCHANGED <<utFile, utTmp>>
  /\ utUnchanged

\* atomicWriteJson: writeFileSync of the temporary file, which may throw and
\* then leaves no file or an incomplete one
UpdateWriteTmp ==
  /\ utPc = "write"
  /\ \/ utTmp' = JSONstringify(utTask) /\ utPc' = "rename"
     \/ utTmp' \in {NoFile, MalformedFile} /\ utPc' = "threw"
  /\ UNCHANGED <<utFile, utTask>>
  /\ utUnchanged

\* atomicWriteJson: renameSync of the temporary file onto the task file, which
\* may throw and then changes nothing
UpdateRename ==
  /\ utPc = "rename"
  /\ \/ utFile' = utTmp /\ utTmp' = NoFile /\ utPc' = "done"
     \/ utPc' = "threw" /\ UNCHANGED <<utFile, utTmp>>
  /\ UNCHANGED utTask
  /\ utUnchanged

\* ====================================================================
\* normalizeClaudeLaunchArgs (src/cli/launch.ts)
\* ====================================================================

MADMAX_FLAG == "--madmax"
YOLO_FLAG == "--yolo"
CLAUDE_BYPASS_FLAG == "--dangerously-skip-permissions"

\* the loop over args with its three locals
RECURSIVE normalizeLoop(_, _, _, _)
normalizeLoop(args, normalized, wantsBypass, hasBypass) ==
  IF args = <<>>
    THEN [normalized |-> normalized, wantsBypass |-> wantsBypass,
          hasBypass |-> hasBypass]
  ELSE LET arg == Head(args) IN
       IF arg = MADMAX_FLAG \/ arg = YOLO_FLAG
         THEN normalizeLoop(Tail(args), normalized, TRUE, hasBypass)
       ELSE IF arg = CLAUDE_BYPASS_FLAG
         THEN normalizeLoop(Tail(args),
                IF ~hasBypass THEN Append(normalized, arg) ELSE normalized,
                TRUE, TRUE)
       ELSE normalizeLoop(Tail(args), Append(normalized, arg), wantsBypass, hasBypass)

\* a normalisation that turns every one of the three flags into the bypass flag
normalizeClaudeLaunchArgs_MapEach(args) ==
  [i \in 1..Len(args) |->
     IF args[i] \in {MADMAX_FLAG, YOLO_FLAG} THEN CLAUDE_BYPASS_FLAG ELSE args[i]]

normalizeClaudeLaunchArgs(args) ==
  LET loop == normalizeLoop(args, <<>>, FALSE, FALSE) IN
  IF loop.wantsBypass /\ ~loop.hasBypass
    THEN Append(loop.normalized, CLAUDE_BYPASS_FLAG)
    ELSE loop.normalized

\* normalizeClaudeLaunchArgs applied to the arguments, then to its own result
NormalizeCall ==
  /\ naOut = <<>>
  /\ naOut' = <<normalizeClaudeLaunchArgs(naArgs)>>
  /\ UNCHANGED <<baseVars, sanVars, promptVars, spawnVars, pathVars, updVars, concVars,
                 naArgs>>

NormalizeAgain ==
  /\ Len(naOut) = 1
  /\ naOut' = Append(naOut, normalizeClaudeLaunchArgs(naOut[1]))
  /\ UNCHANGED <<baseVars, sanVars, promptVars, spawnVars, pathVars, updVars, concVars,
                 naArgs>>

\* ====================================================================
\* Two daemon processes of one worker name at one task (SpecRace)
\* ====================================================================
\* Each process runs findNextTask on the task and, when the call returns the
\* task, runBridge's updateTask(in_progress).  An updateTask is a read of the
\* file and a later write of the read document with the patch merged in.

\* the process ids of the two daemons
Pids == {1, 2}

\* no task file (claimPid 0: no claim marker)
RcNoTask == [status |-> "absent", claimedBy |-> "none", claimPid |-> 0]

\* what a step of the two processes leaves alone
rcUnchanged ==
  UNCHANGED <<baseVars, sanVars, promptVars, spawnVars, pathVars, updVars, argVars,
              ilVars>>

\* readTask and the filters of the loop; one task, so a skip returns null
RaceReadTask(p) ==
  /\ rcPc[p] = "read"
  /\ rcPc' = [rcPc EXCEPT ![p] = IF rcTask.status = "pending" THEN "claim_read"
                                 ELSE "null"]
  /\ UNCHANGED <<rcTask, rcLocal>>
  /\ rcUnchanged

\* updateTask(claim marker): the read of the task file
RaceClaimRead(p) ==
  /\ rcPc[p] = "claim_read"
  /\ rcLocal' = [rcLocal EXCEPT ![p] = rcTask]
  /\ rcPc' = [rcPc EXCEPT ![p] = "claim_write"]
  /\ UNCHANGED rcTask
  /\ rcUnchanged

\* updateTask(claim marker): the write; then the 50 ms wait begins
RaceClaimWrite(p) ==
  /\ rcPc[p] = "claim_write"
  /\ rcTask' = [rcLocal[p] EXCEPT !.claimedBy = Worker, !.claimPid = p]
  /\ rcPc' = [rcPc EXCEPT ![p] = "verify"]
  /\ UNCHANGED rcLocal
  /\ rcUnchanged

\* the re-read after the wait shows the task pending with this process's claim
raceClaimHolds(p) ==
  rcTask.status = "pending" /\ rcTask.claimedBy = Worker /\ rcTask.claimPid = p

\* the re-read and the verification: findNextTask returns the task or null
RaceVerify(p) ==
  /\ rcPc[p] = "verify"
  /\ rcPc' = [rcPc EXCEPT ![p] = IF raceClaimHolds(p) THEN "mark_read" ELSE "null"]
  /\ UNCHANGED <<rcTask, rcLocal>>
  /\ rcUnchanged

\* runBridge, updateTask(in_progress): the read of the task file
RaceMarkRead(p) ==
  /\ rcPc[p] = "mark_read"
  /\ rcLocal' = [rcLocal EXCEPT ![p] = rcTask]
  /\ rcPc' = [rcPc EXCEPT ![p] = "mark_write"]
  /\ UNCHANGED rcTask
  /\ rcUnchanged

\* runBridge, updateTask(in_progress): the write; the process goes on to execute
RaceMarkWrite(p) ==
  /\ rcPc[p] = "mark_write"
  /\ rcTask' = [rcLocal[p] EXCEPT !.status = "in_progress"]
  /\ rcPc' = [rcPc EXCEPT ![p] = "execute"]
  /\ UNCHANGED rcLocal
  /\ rcUnchanged

\* ====================================================================
\* Two updateTask calls on one task file (SpecInterleave)
\* ====================================================================
\* Each call reads and parses the file, merges its updates, writes its own
\* temporary file (the name carries the process id) and renames it onto the
\* task file.

\* the two callers of updateTask
Callers == {1, 2}

\* what a step of the two calls leaves alone
ilUnchanged ==
  UNCHANGED <<baseVars, sanVars, promptVars, spawnVars, pathVars, updVars, argVars,
              raceVars, ilUpdates>>

\* readFileSync, JSON.parse and the merge of the updates
InterleaveRead(c) ==
  /\ ilPc[c] = "read"
  /\ ilTask' = [ilTask EXCEPT
                  ![c] = mergeUpdates(JSONparseObject(ilFile.pairs, <<>>), ilUpdates[c])]
  /\ ilPc' = [ilPc EXCEPT ![c] = "write"]
  /\ UNCHANGED <<ilFile, ilTmp>>
  /\ ilUnchanged

\* atomicWriteJson: writeFileSync of the caller's temporary file
InterleaveWriteTmp(c) ==
  /\ ilPc[c] = "write"
  /\ ilTmp' = [ilTmp EXCEPT ![c] = JSONstringify(ilTask[c])]
  /\ ilPc' = [ilPc EXCEPT ![c] = "rename"]
  /\ UNCHANGED <<ilFile, ilTask>>
  /\ ilUnchanged

\* atomicWriteJson: renameSync onto the task file
InterleaveRename(c) ==
  /\ ilPc[c] = "rename"
  /\ ilFile' = ilTmp[c]
  /\ ilTmp' = [ilTmp EXCEPT ![c] = NoFile]
  /\ ilPc' = [ilPc EXCEPT ![c] = "done"]
  /\ UNCHANGED ilTask
  /\ ilUnchanged

\* ====================================================================
\* spawnCliProcess: the result promise (SpecSpawn)
\* ====================================================================

Pending == [state |-> "pending", value |-> <<>>]

\* the response of a close that counts as success: the trimmed stdout for
\* gemini; for codex parseCodexOutput, which finds no event in plain text and
\* falls back to the raw stdout
response(provider, stdout) == IF provider = "codex" THEN stdout ELSE trim(stdout)

\* the close handler's test with stdout.length for stdout.trim()
closeSucceeds_NonEmpty(code, stdout) == code = "0" \/ stdout # <<>>

\* the close handler's test: code === 0 || stdout.trim()
closeSucceeds(code, stdout) == code = "0" \/ trim(stdout) # <<>>

\* resolve(value) / reject(error)
settle(state, value) ==
  /\ scSettled' = TRUE
  /\ scResult' = IF scResult = Pending THEN [state |-> state, value |-> value]
                                       ELSE scResult
  /\ scSettlements' = scSettlements + 1

\* child.stdout.on('data')
StdoutData(c) ==
  /\ "close" \notin scEvents
  /\ Len(scStdout) < MaxStdoutLen
  /\ scStdout' = Append(scStdout, c)
  /\ UNCHANGED <<baseVars, exceptSpawn, scProvider, scStderr, scSettled, scTimer,
                 scEvents, scCode, scResult, scSettlements, scKills>>

\* child.stderr.on('data')
StderrData ==
  /\ "close" \notin scEvents
  /\ scStderr = <<>>
  /\ scStderr' = <<"e">>
  /\ UNCHANGED <<baseVars, exceptSpawn, scProvider, scStdout, scSettled, scTimer,
                 scEvents, scCode, scResult, scSettlements, scKills>>

\* the timer fires (it cannot once it is cleared)
TimeoutFires ==
  /\ scTimer = "armed"
  /\ scTimer' = "fired"
  /\ IF ~scSettled
       THEN /\ settle("rejected", <<"timeout">>)
            /\ scKills' = scKills + 1
       ELSE UNCHANGED <<scSettled, scResult, scSettlements, scKills>>
  /\ UNCHANGED <<baseVars, exceptSpawn, scProvider, scStdout, scStderr, scEvents,
                 scCode>>

\* child.on('close', code)
ChildClose(code) ==
  /\ "close" \notin scEvents
  /\ scEvents' = scEvents \cup {"close"}
  /\ scCode' = code
  /\ IF ~scSettled
       THEN /\ scTimer' = "cleared"
            /\ IF closeSucceeds(code, scStdout)
                 THEN settle("resolved", response(scProvider, scStdout))
                 ELSE settle("rejected",
                             <<"exit", code>> \o (IF scStderr # <<>> THEN scStderr
                                                                    ELSE <<"No output">>))
       ELSE UNCHANGED <<scSettled, scTimer, scResult, scSettlements>>
  /\ UNCHANGED <<baseVars, exceptSpawn, scProvider, scStdout, scStderr, scKills>>

\* child.on('error')
ChildError ==
  /\ "error" \notin scEvents /\ "close" \notin scEvents
  /\ scEvents' = scEvents \cup {"error"}
  /\ IF ~scSettled
       THEN scTimer' = "cleared" /\ settle("rejected", <<"spawn">>)
       ELSE UNCHANGED <<scSettled, scTimer, scResult, scSettlements>>
  /\ UNCHANGED <<baseVars, exceptSpawn, scProvider, scStdout, scStderr, scCode,
                 scKills>>

\* child.stdin.on('error')
StdinError ==
  /\ "stdin" \notin scEvents /\ "close" \notin scEvents
  /\ scEvents' = scEvents \cup {"stdin"}
  /\ IF ~scSettled
       THEN /\ scTimer' = "cleared"
            /\ scKills' = scKills + 1
            /\ settle("rejected", <<"stdin">>)
       ELSE UNCHANGED <<scSettled, scTimer, scResult, scSettlements, scKills>>
  /\ UNCHANGED <<baseVars, exceptSpawn, scProvider, scStdout, scStderr, scCode>>

\* -------------------------------------------------------- specification

InitInbox ==
  /\ ibFile = <<>> /\ ibCursor = 0 /\ ibDelivered = <<>> /\ ibLast = <<>>
  /\ ibPrevCursor = 0 /\ ibCalls = 0 /\ ibOnlyRecords = TRUE
  /\ ibMaintPc = "none" /\ ibSnapshot = <<>> /\ ibSnapCount = 0
  /\ ibRotations = 0 /\ ibMaint = 0

InitDaemon ==
  /\ maxRetries \in MaxRetriesChoices
  /\ maxConsecutiveErrors = DefaultMaxConsecutiveErrors
  /\ pc = "check"
  /\ consecutiveErrors = 0
  /\ idleNotified = FALSE
  /\ quarantineNotified = FALSE
  /\ activeChild = "null"
  /\ cur = 0 /\ messages = 0 /\ sdChild = "null" /\ sdRequest = "null"
  /\ tasks = [t \in TaskIds |-> NoTask]
  /\ sidecar = [t \in TaskIds |-> 0]
  /\ outbox = <<>>
  /\ hb = Heartbeat("absent", 0)
  /\ signal = "none"
  /\ inboxPending = 0
  /\ live = 0
  /\ faults = 0
  /\ nExec = [t \in TaskIds |-> 0]
  /\ nFail = [t \in TaskIds |-> 0]
  /\ nSent = [k \in CountedKinds |-> 0]
  /\ idleRun = 0
  /\ sigDuringCli = 0 /\ termSent = FALSE
  /\ InitInbox

InitOutboxFile == obLines = <<>> /\ obAppended = 0 /\ obRotations = 0

\* findNextTask is entered: nothing claimed, nothing re-read
InitFindNext ==
  /\ ftPc = "read" /\ ftId = 1 /\ ftResult = 0
  /\ ftClaimed = {} /\ ftFresh = [t \in FtIds |-> FtNotReread] /\ ftOther = 0

\* no call of sanitizePromptContent
RestSanitize == spContent = <<>> /\ spMaxLength = 0 /\ spOut = <<>>

\* no call of buildTaskPrompt
RestPrompt ==
  /\ ptTask = [subject |-> <<>>, description |-> <<>>]
  /\ ptMessages = <<>>
  /\ ptConfig = [workingDirectory |-> <<>>]
  /\ ptBuilt = NotBuilt

\* spawnCliProcess has returned: handlers registered, timer armed
InitPromise ==
  /\ scStdout = <<>> /\ scStderr = <<>>
  /\ scSettled = FALSE /\ scTimer = "armed" /\ scEvents = {} /\ scCode = "none"
  /\ scResult = Pending /\ scSettlements = 0 /\ scKills = 0

\* no spawnCliProcess call is looked at
RestSpawn == scProvider = "gemini" /\ InitPromise

\* no call of validateResolvedPath
RestPath == vpResolvedPath = <<"/">> /\ vpExpectedBase = <<"/">> /\ vpResult = "unset"

\* no call of updateTask, no task file
RestUpdate ==
  /\ utFile = NoFile /\ utTmp = NoFile /\ utBefore = NoFile
  /\ utPc = "read" /\ utTask = <<>> /\ utUpdates = <<>>

\* no call of normalizeClaudeLaunchArgs
RestArgs == naArgs = <<>> /\ naOut = <<>>

\* no second process at the task files
RestRace ==
  /\ rcTask = RcNoTask
  /\ rcPc = [p \in Pids |-> "read"]
  /\ rcLocal = [p \in Pids |-> RcNoTask]

\* no interleaved updateTask calls
RestInterleave ==
  /\ ilFile = NoFile
  /\ ilPc = [c \in Callers |-> "read"]
  /\ ilTask = [c \in Callers |-> <<>>]
  /\ ilUpdates = [c \in Callers |-> <<>>]
  /\ ilTmp = [c \in Callers |-> NoFile]

RestConc == RestRace /\ RestInterleave

RestLib == RestPath /\ RestUpdate /\ RestArgs /\ RestConc

\* the functions checked on their own are not called
InitFunctions == RestSanitize /\ RestPrompt /\ RestSpawn /\ RestLib

Init ==
  /\ InitDaemon
  /\ InitOutboxFile /\ obMaxLines = outboxMaxLines
  /\ InitFindNext /\ ftTasks = [t \in FtIds |-> FtNoTask]
  /\ InitFunctions

Daemon ==
  \/ CheckShutdown \/ QuarantineNotify \/ QuarantineHeartbeat
  \/ WritePollingHeartbeat \/ ReadInbox \/ FindTask \/ MarkInProgress
  \/ WriteExecutingHeartbeat \/ RecheckShutdown \/ RevertBeforeSpawn
  \/ BuildPrompt \/ SpawnCli \/ CliResolves
  \/ (\E closed \in BOOLEAN : CliRejects(closed))
  \/ WriteOutput \/ MarkCompleted \/ ReportComplete
  \/ WriteFailureSidecar \/ MarkFailure \/ ReportPermanentFailure
  \/ ReportTaskFailed \/ NotifyIdle \/ RotateOutbox \/ Sleep
  \/ ShutdownKillChild \/ ShutdownAck \/ ShutdownDeleteSignal
  \/ ShutdownDeleteHeartbeat

Environment ==
  \/ OrphanExits
  \/ (\E f \in LeadTasks : LeadCreatesTask(f.id, f.owner, f.blockedBy))
  \/ (\E c \in RequestIds \cup {"malformed"} : LeadWritesSignal(c))
  \/ LeadSendsMessage

Next == Daemon \/ Environment

Spec == Init /\ [][Next]_vars

\* the inbox reader alone, the daemon at rest
InitReader == Init /\ \A m \in MaxRetriesChoices : maxRetries <= m

NextInbox ==
  \/ readNewInboxMessages
  \/ (\E chunk \in Chunks : LeadAppends(chunk))

SpecInbox == InitReader /\ [][NextInbox]_vars

\* the inbox reader with clearInbox and rotateInboxIfNeeded run beside it, the
\* lead appending complete records
NextInboxMaint ==
  \/ readNewInboxMessages
  \/ (\E c \in Payload : LeadAppends(Record(c)))
  \/ ClearInboxTruncate \/ ClearInboxResetCursor
  \/ RotateInboxRead \/ RotateInboxRename \/ RotateInboxResetCursor

SpecInboxMaint == InitReader /\ [][NextInboxMaint]_vars

\* rotateOutboxIfNeeded for every maxLines, the daemon at rest
InitRotation ==
  /\ InitDaemon /\ (\A m \in MaxRetriesChoices : maxRetries <= m)
  /\ InitOutboxFile
  /\ obMaxLines \in 1..MaxMaxLines
  /\ InitFindNext /\ ftTasks = [t \in FtIds |-> FtNoTask]
  /\ InitFunctions

NextOutbox == OutboxAppend \/ OutboxRotate

SpecOutbox == InitRotation /\ [][NextOutbox]_vars

\* the task files findNextTask may find: each missing, pending or completed,
\* owned by this worker or another, blocked by nothing or by its predecessor
FtDirectories ==
  {d \in [FtIds -> [status : {"absent", "pending", "completed"},
                    owner : Owners \cup {"none"},
                    blockedBy : SUBSET FtIds,
                    claimedBy : {"none"}, claimPid : {"none"}]] :
     \A t \in FtIds :
       /\ d[t].blockedBy \in {{}, {t - 1} \cap FtIds}
       /\ d[t].status = "absent" <=> d[t] = FtNoTask
       /\ d[t].status # "absent" => d[t].owner \in Owners}

\* one findNextTask call, the daemon at rest
InitClaim ==
  /\ InitDaemon /\ (\A m \in MaxRetriesChoices : maxRetries <= m)
  /\ InitOutboxFile /\ obMaxLines = outboxMaxLines
  /\ InitFindNext
  /\ ftTasks \in FtDirectories
  /\ InitFunctions

NextClaim ==
  \/ FindNextSkip
  \/ FindNextCandidate
  \/ FindNextClaim
  \/ FindNextVerify
  \/ FindNextNull
  \/ \E t \in FtIds, name \in Owners : OtherClaims(t, name)
  \/ \E t \in FtIds, st \in {"in_progress", "completed"} : OtherUpdatesStatus(t, st)
  \/ \E t \in FtIds : OtherDeletes(t)

SpecClaim == InitClaim /\ [][NextClaim]_vars

\* the daemon and the file operations at rest
InitAtRest ==
  /\ InitDaemon /\ (\A m \in MaxRetriesChoices : maxRetries <= m)
  /\ InitOutboxFile /\ obMaxLines = outboxMaxLines
  /\ InitFindNext /\ ftTasks = [t \in FtIds |-> FtNoTask]

\* the characters of user-provided text
Chars == {"<", "/", ">", "x"} \cup TagNames

\* the strings of at most n characters
Strings(n) == UNION {[1..k -> Chars] : k \in 0..n}

\* sanitizePromptContent for every content and every maxLength up to one
\* more than the content can have
InitSanitize ==
  /\ InitAtRest
  /\ spContent \in Strings(MaxContentLen)
  /\ spMaxLength \in 0..(MaxContentLen + 1)
  /\ spOut = <<>>
  /\ RestPrompt /\ RestSpawn /\ RestLib

NextSanitize == SanitizeCall

SpecSanitize == InitSanitize /\ [][NextSanitize]_vars

\* n ordinary characters
Xs(n) == [i \in 1..n |-> "x"]

OpenTag(name) == <<"<", name, ">">>
CloseTag(name) == <<"<", "/", name, ">">>

\* the subjects, descriptions and messages the lead writes: short, at the cap,
\* one over the cap, and text that carries a delimiter tag
Subjects ==
  {Xs(1), Xs(SubjectMaxLength), Xs(SubjectMaxLength + 1), CloseTag("TASK_SUBJECT")}
Descriptions ==
  {<<>>, Xs(DescriptionMaxLength), Xs(DescriptionMaxLength + 1),
   CloseTag("TASK_DESCRIPTION") \o OpenTag("TASK_SUBJECT")}
InboxMessages ==
  {[content |-> Xs(1), timestamp |-> <<"t">>],
   [content |-> Xs(MessageMaxLength + 1), timestamp |-> <<"t">>],
   [content |-> CloseTag("INBOX_MESSAGE"), timestamp |-> <<"t">>],
   [content |-> Xs(1), timestamp |-> CloseTag("INBOX_MESSAGE")]}
\* the working directories of the configuration: short and long paths
WorkingDirectories ==
  {Xs(1), Xs(DescriptionMaxLength), Xs(2 * DescriptionMaxLength)}

\* buildTaskPrompt for every task, message list and configuration of the menus
InitPrompt ==
  /\ InitAtRest
  /\ RestSanitize /\ RestSpawn /\ RestLib
  /\ ptTask \in [subject : Subjects, description : Descriptions]
  /\ ptMessages \in UNION {[1..k -> InboxMessages] : k \in 0..MaxPromptMessages}
  /\ ptConfig \in [workingDirectory : WorkingDirectories]
  /\ ptBuilt = NotBuilt

NextPrompt == BuildTaskPromptCall

SpecPrompt == InitPrompt /\ [][NextPrompt]_vars

\* one spawnCliProcess call of either provider
InitSpawn ==
  /\ InitAtRest
  /\ RestSanitize /\ RestPrompt /\ RestLib
  /\ scProvider \in {"codex", "gemini"}
  /\ InitPromise

NextSpawn ==
  \/ (\E c \in {" ", "x"} : StdoutData(c))
  \/ StderrData
  \/ TimeoutFires
  \/ (\E code \in {"0", "1", "null"} : ChildClose(code))
  \/ ChildError
  \/ StdinError

\* the timer fires unless it is cleared
SpecSpawn == InitSpawn /\ [][NextSpawn]_vars /\ WF_vars(TimeoutFires)

\* the characters of a path
PathChars == {"/", ".", "a"}

\* the absolute paths of at most n characters after the leading separator
AbsPaths(n) == {<<"/">> \o p : p \in UNION {[1..k -> PathChars] : k \in 0..n}}

\* validateResolvedPath for every pair of absolute paths
InitPath ==
  /\ InitAtRest
  /\ RestSanitize /\ RestPrompt /\ RestSpawn /\ RestUpdate /\ RestArgs /\ RestConc
  /\ vpResolvedPath \in AbsPaths(MaxPathLen)
  /\ vpExpectedBase \in AbsPaths(MaxBaseLen)
  /\ vpResult = "unset"

NextPath == ValidateCall

SpecPath == InitPath /\ [][NextPath]_vars

\* the keys of a task document: one the daemon knows, one it does not
Keys == {"status", "x"}
JsonValues == {"v1", "v2"}
Members == [key : Keys, value : JsonValues]

\* the task files: missing, malformed, or an object of at most MaxMembers
\* members, compact or indented
TaskFiles ==
  {NoFile, MalformedFile} \cup
  [kind : {"json"}, pairs : UNION {[1..k -> Members] : k \in 0..MaxMembers},
   indent : {0, 2}]

\* the updates: each key at most once, its value possibly undefined
Updates ==
  {u \in UNION {[1..k -> [key : Keys, value : JsonValues \cup {"undefined"}]] :
                  k \in 0..2} :
     \A i, j \in 1..Len(u) : u[i].key = u[j].key => i = j}

\* one updateTask call for every task file and every updates argument
InitUpdate ==
  /\ InitAtRest
  /\ RestSanitize /\ RestPrompt /\ RestSpawn /\ RestPath /\ RestArgs /\ RestConc
  /\ utFile \in TaskFiles /\ utBefore = utFile
  /\ utUpdates \in Updates
  /\ utTmp = NoFile /\ utPc = "read" /\ utTask = <<>>

NextUpdate == UpdateRead \/ UpdateMerge \/ UpdateWriteTmp \/ UpdateRename

SpecUpdate == InitUpdate /\ [][NextUpdate]_vars

\* the arguments of a launch: the three permission flags, another flag, a value
LaunchArgs == {MADMAX_FLAG, YOLO_FLAG, CLAUDE_BYPASS_FLAG, "--model", "x"}

\* normalizeClaudeLaunchArgs for every argument list of at most MaxArgs arguments
InitArgs ==
  /\ InitAtRest
  /\ RestSanitize /\ RestPrompt /\ RestSpawn /\ RestPath /\ RestUpdate /\ RestConc
  /\ naArgs \in UNION {[1..k -> LaunchArgs] : k \in 0..MaxArgs}
  /\ naOut = <<>>

NextArgs == NormalizeCall \/ NormalizeAgain

SpecArgs == InitArgs /\ [][NextArgs]_vars

\* the task when the two processes start: pending, unclaimed or with the
\* marker of an earlier process, or already taken
RaceTasks ==
  [status : {"pending", "in_progress"}, claimedBy : {"none"}, claimPid : {0}] \cup
  [status : {"pending"}, claimedBy : {Worker}, claimPid : {3}]

InitRace ==
  /\ InitAtRest
  /\ RestSanitize /\ RestPrompt /\ RestSpawn /\ RestPath /\ RestUpdate /\ RestArgs
  /\ RestInterleave
  /\ rcTask \in RaceTasks
  /\ rcPc = [p \in Pids |-> "read"]
  /\ rcLocal = [p \in Pids |-> RcNoTask]

NextRace ==
  \/ (\E p \in Pids : RaceReadTask(p))
  \/ (\E p \in Pids : RaceClaimRead(p))
  \/ (\E p \in Pids : RaceClaimWrite(p))
  \/ (\E p \in Pids : RaceVerify(p))
  \/ (\E p \in Pids : RaceMarkRead(p))
  \/ (\E p \in Pids : RaceMarkWrite(p))

SpecRace == InitRace /\ [][NextRace]_vars

\* two updateTask calls on every task document: the first sets the status,
\* the second the other field
InitInterleave ==
  /\ InitAtRest
  /\ RestSanitize /\ RestPrompt /\ RestSpawn /\ RestPath /\ RestUpdate /\ RestArgs
  /\ RestRace
  /\ ilFile \in {f \in TaskFiles : f.kind = "json"}
  /\ ilUpdates \in {u \in [Callers -> Updates] :
                      /\ Len(u[1]) = 1 /\ u[1][1].key = "status"
                      /\ Len(u[2]) = 1 /\ u[2][1].key = "x"
                      /\ \A c \in Callers : u[c][1].value # "undefined"}
  /\ ilPc = [c \in Callers |-> "read"]
  /\ ilTask = [c \in Callers |-> <<>>]
  /\ ilTmp = [c \in Callers |-> NoFile]

NextInterleave ==
  \/ (\E c \in Callers : InterleaveRead(c))
  \/ (\E c \in Callers : InterleaveWriteTmp(c))
  \/ (\E c \in Callers : InterleaveRename(c))

SpecInterleave == InitInterleave /\ [][NextInterleave]_vars


\* ====================================================================
\* Properties of the bridge daemon (Spec)
\* ====================================================================

\* the daemon wrote to the file of an existing task in this step
DaemonWritesTask(t) == tasks[t].status # "absent" /\ tasks'[t] # tasks[t]

\* a message of one of the kinds was appended to the outbox in this step
Appended(kinds) ==
  /\ Len(outbox') = Len(outbox) + 1
  /\ outbox' = Append(outbox, Last(outbox'))
  /\ Last(outbox').kind \in kinds

\* no CLI execution has resolved so far
ProviderAlwaysFails ==
  /\ \A t \in TaskIds :
       nExec[t] = nFail[t] + (IF pc = "await" /\ cur = t THEN 1 ELSE 0)
  /\ pc \notin {"succ_write", "succ_mark", "succ_report"}

\* C1: if a valid shutdown signal file appeared while the provider CLI of a task
\* was running, then after the shutdown the child was sent terminate by the
\* shutdown sequence, the task is pending again, the outbox ends with the
\* shutdown_ack carrying the signal's requestId, and the signal file and the
\* heartbeat are removed.
C1_ShutdownTerminatesRunningCli ==
  (pc = "done" /\ sigDuringCli # 0) =>
    /\ termSent
    /\ tasks[sigDuringCli].status = "pending"
    /\ Len(outbox) > 0 /\ Last(outbox) = ShutdownAckMsg(sdRequest)
    /\ signal = "none"
    /\ hb.status = "absent"

\* the scenario of C2 at the end of a cycle: maxRetries = 2, task t is the only
\* task and belongs to the worker, every execution so far has failed, no I/O
\* operation has thrown
RetryScenario(t) ==
  /\ maxRetries = 2
  /\ faults = 0
  /\ pc = "sleep"
  /\ tasks[t].owner = Worker
  /\ \A u \in TaskIds \ {t} : tasks[u].status = "absent"
  /\ ProviderAlwaysFails

\* C2 as claimed: the task goes back to pending after each of the first two
\* failed executions, with one task_failed message each, and the third execution
\* marks it completed with permanentlyFailed and one permanent-failure message.
C2_ThirdExecutionFailsPermanently ==
  \A t \in TaskIds : RetryScenario(t) =>
    /\ nExec[t] \in {1, 2} =>
         /\ tasks[t].status = "pending"
         /\ nSent["task_failed"] = nExec[t]
         /\ nSent["permanent"] = 0
    /\ tasks[t].permanentlyFailed =>
         /\ nExec[t] = 3
         /\ nSent["task_failed"] = 2
         /\ nSent["permanent"] = 1

\* C2 amended: with maxRetries = 2 the task goes pending -> in_progress -> pending
\* once, with one task_failed message (attempt 1), and the second execution
\* marks it completed with permanentlyFailed (failedAttempts 2) and emits one
\* permanent-failure error message; it is not executed a third time.
C2_SecondExecutionFailsPermanently ==
  \A t \in TaskIds : RetryScenario(t) =>
    /\ nExec[t] <= 2
    /\ nExec[t] = 1 =>
         /\ tasks[t].status = "pending" /\ ~tasks[t].permanentlyFailed
         /\ nSent["task_failed"] = 1 /\ nSent["permanent"] = 0
    /\ nExec[t] = 2 =>
         /\ tasks[t].status = "completed" /\ tasks[t].permanentlyFailed
         /\ tasks[t].failedAttempts = 2
         /\ nSent["task_failed"] = 1 /\ nSent["permanent"] = 1

C2_Witness ==
  \E t \in TaskIds :
    RetryScenario(t) /\ nExec[t] = 2 /\ tasks[t].permanentlyFailed

\* the scenario of C3: maxConsecutiveErrors = 3, a retry ceiling above it, every
\* execution fails, no I/O operation throws
QuarantineScenario ==
  /\ maxConsecutiveErrors = 3
  /\ maxRetries > 3
  /\ faults = 0
  /\ ProviderAlwaysFails

\* C3: in that scenario the outbox receives exactly three task_failed messages
\* before the daemon quarantines itself, then exactly one error message
\* "Self-quarantined after 3"; from then on the heartbeat written in every
\* cycle is quarantined and the quarantine message stays the last outbox entry
\* until the shutdown sequence appends its shutdown_ack.
C3_QuarantineAfterThreeFailures ==
  QuarantineScenario =>
    /\ nSent["task_failed"] <= 3
    /\ nSent["permanent"] = 0
    /\ nSent["quarantine"] <= 1
    /\ pc \in {"quarantine", "quar_hb"} => nSent["task_failed"] = 3
    /\ quarantineNotified =>
         /\ nSent["task_failed"] = 3
         /\ nSent["quarantine"] = 1
         /\ \/ Last(outbox) = Msg("error", "quarantine", 0, 3)
            \/ /\ pc \in {"sd_sig", "sd_hb", "done"}
               /\ Last(outbox).kind = "shutdown_ack"
         /\ pc = "sleep" => hb = Heartbeat("quarantined", 0)

C3_Witness ==
  /\ QuarantineScenario
  /\ quarantineNotified
  /\ pc = "sleep"
  /\ hb.status = "quarantined"
  /\ nSent["task_failed"] = 3

\* C4 as claimed: from the moment the counter has reached maxConsecutiveErrors
\* the daemon changes no task file.
C4_NoTaskWriteOnceCounterReached ==
  [][quarantined => \A t \in TaskIds : ~DaemonWritesTask(t)]_vars

\* the daemon is at a cycle boundary, in the quarantine branch or in the
\* shutdown sequence
AtCycleBoundary ==
  pc \in {"sleep", "check", "quarantine", "quar_hb", "sd_kill", "sd_ack", "sd_sig",
          "sd_hb", "done"}

\* C4 amended: the cycle in which the counter reaches maxConsecutiveErrors still
\* finishes its failure handling; from its end on the daemon stays quarantined
\* for the rest of the run: the counter never falls below the ceiling, no inbox
\* read, no claim, no task-file or sidecar write, no CLI spawn; the only outbox
\* appends are the quarantine error message, at most once, and the shutdown_ack;
\* the cycle-start check still runs, and only a shutdown signal found there
\* leads out of the quarantine branch.
C4_QuarantineIsAbsorbing ==
  [][(quarantined /\ AtCycleBoundary) =>
       /\ quarantined' /\ AtCycleBoundary'
       /\ tasks' = tasks /\ sidecar' = sidecar
       /\ inboxPending' = inboxPending /\ messages' = messages
       /\ nExec' = nExec /\ live' <= live
       /\ outbox' # outbox =>
            /\ Appended({"quarantine", "shutdown_ack"})
            /\ Last(outbox').kind = "quarantine" => ~quarantineNotified
       /\ nSent'["quarantine"] <= 1
       /\ pc = "check" =>
            (pc' = "sd_kill") = (checkShutdownSignal # "null")
       /\ pc' = "sd_kill" => pc \in {"check", "sd_kill"}
    ]_vars

C4_Witness ==
  /\ quarantined
  /\ pc = "check"
  /\ quarantineNotified
  /\ signal \in RequestIds
  /\ \E t \in TaskIds : Claimable(t)

\* C5 as claimed: when a task_complete or task_failed message is appended, at
\* most one idle message has been appended since the previous one.
C5_OneIdleBetweenTaskMessages ==
  [][Appended({"task_complete", "task_failed"}) => idleRun <= 1]_vars

\* C5 amended: at most one idle message appears between two consecutive claims
\* of a task: an idle message is appended only while the one-shot flag is clear
\* and sets it, and the flag is cleared only by findNextTask returning a task.
\* What lies between two idle messages need not be a task_complete or
\* task_failed: it can be a permanent-failure error, or nothing when a step of
\* the cycle threw.
C5_OneIdleBetweenClaims ==
  [][/\ Appended({"idle"}) => (~idleNotified /\ idleNotified')
     /\ (idleNotified /\ ~idleNotified') => (pc = "find" /\ cur' # 0)
    ]_vars

C5_Witness == idleRun = 2 /\ idleNotified /\ pc = "rotate"

\* C6: once the failure handler has marked a task whose sidecar retryCount is
\* >= maxRetries, the task is completed with permanentlyFailed = true; the
\* daemon never changes it nor executes it again; and a task with such a sidecar
\* is never pending, so findNextTask never returns it.
C6_ExhaustedTaskIsPermanentlyFailed ==
  /\ [](\A t \in TaskIds : sidecar[t] >= maxRetries => tasks[t].status # "pending")
  /\ [][/\ (pc = "fail_mark" /\ pc' # "sleep" /\ sidecar[cur] >= maxRetries) =>
            (tasks'[cur].status = "completed" /\ tasks'[cur].permanentlyFailed)
        /\ \A t \in TaskIds :
             tasks[t].permanentlyFailed =>
               (tasks'[t] = tasks[t] /\ nExec'[t] = nExec[t])
       ]_vars

C6_Witness ==
  \E t \in TaskIds :
    /\ sidecar[t] >= maxRetries
    /\ tasks[t].status = "completed" /\ tasks[t].permanentlyFailed
    /\ pc = "find"
    /\ \E u \in TaskIds : Claimable(u)

\* C7: at the end of every cycle the retryCount of each task's failure sidecar
\* equals the number of executions of that task that ended in failure, and the
\* attempt number of every task_failed / permanent-failure message equals that
\* number when it is appended.
C7_RetryCountEqualsFailedExecutions ==
  /\ [](pc = "sleep" => \A t \in TaskIds : sidecar[t] = nFail[t])
  /\ [][Appended({"task_failed", "permanent"}) =>
          Last(outbox').n = nFail[Last(outbox').taskId]]_vars

\* C8: every status change the daemon writes to a task file is on a task of the
\* worker and is pending -> in_progress, in_progress -> completed or
\* in_progress -> pending; the status of a completed task never changes.
StatusChangesAllowed ==
  {<<"pending", "in_progress">>, <<"in_progress", "completed">>,
   <<"in_progress", "pending">>}

C8_OnlyPermittedStatusChanges ==
  [][\A t \in TaskIds :
       (tasks[t].status # "absent" /\ tasks'[t].status # tasks[t].status) =>
         /\ tasks[t].owner = Worker
         /\ <<tasks[t].status, tasks'[t].status>> \in StatusChangesAllowed
    ]_vars

\* pending, owned by this worker, every blocker existing and completed
Eligible(t) ==
  /\ tasks[t].status = "pending"
  /\ tasks[t].owner = Worker
  /\ \A b \in tasks[t].blockedBy :
       tasks[b].status # "absent" /\ tasks[b].status = "completed"

\* findNextTask has returned in this step
FindCall == pc = "find" /\ pc' \in {"mark", "idle"}

\* idle messages in the outbox
IdleCount == Cardinality({i \in 1..Len(outbox) : outbox[i].kind = "idle"})

\* a task of this worker waits for a blocker, and no task of this worker has
\* been claimable so far
OnlyBlockedTasks ==
  /\ \E t \in TaskIds : tasks[t].owner = Worker
  /\ \A t \in TaskIds :
       tasks[t].owner = Worker =>
         /\ tasks[t].status = "pending" /\ tasks[t].claimedBy = "none"
         /\ nExec[t] = 0
         /\ ~Eligible(t)

\* C17: findNextTask returns the first task in ascending id order that is
\* pending, owned by this worker and has every blocker existing and completed,
\* or null when there is none.  A task with a missing or not-completed blocker
\* is never marked in_progress.  While the worker's only tasks are blocked,
\* the heartbeat never shows anything but polling and the outbox holds exactly
\* one idle message once the idle step has run, none before.
C17_FirstUnblockedTaskIsPicked ==
  /\ [][FindCall =>
          IF \E t \in TaskIds : Eligible(t)
            THEN /\ cur' \in TaskIds /\ Eligible(cur')
                 /\ \A u \in TaskIds : Eligible(u) => cur' <= u
            ELSE cur' = 0
       ]_vars
  /\ [][\A t \in TaskIds :
          (tasks[t].status # "in_progress" /\ tasks'[t].status = "in_progress") =>
            \A b \in tasks[t].blockedBy : tasks[b].status = "completed"
       ]_vars
  /\ [](OnlyBlockedTasks =>
          /\ hb.status \in {"absent", "polling"}
          /\ IdleCount = IF idleNotified THEN 1 ELSE 0)

\* task 2 waits for task 3, which has no file; the daemon has been through a
\* cycle, sent its idle message and sleeps
C17_Witness ==
  /\ OnlyBlockedTasks
  /\ tasks[2].status = "pending" /\ tasks[2].blockedBy = {3}
  /\ tasks[3].status = "absent"
  /\ pc = "sleep" /\ idleNotified /\ IdleCount = 1 /\ hb.status = "polling"

\* the cycle-start check of the signal file has been made in this step
ShutdownCheck == pc = "check" /\ pc' # "check"

\* C18: at every cycle-start check, if the signal file exists, whatever its
\* content, the daemon enters the shutdown sequence instead of going on with
\* the cycle (heartbeat, inbox, task claim, CLI).
C18_AnySignalFileShutsDown ==
  [][(ShutdownCheck /\ signal # "none") => pc' = "sd_kill"]_vars

\* the outbox ends with the shutdown_ack that answers the signal read
AckIsLast == outbox # <<>> /\ Last(outbox) = ShutdownAckMsg(sdRequest)

C20_HeartbeatLeavesExecuting ==
  (pc \in {"rotate", "sleep"} /\ faults = 0) => hb.status # "executing"

\* an execution of task t has ended with the result promise resolved
CliSucceeded(t) == nExec[t] > nFail[t] /\ ~(cur = t /\ pc = "await")

\* C26: once the CLI execution of a task has succeeded, the cycle ends with
\* the task completed, the consecutive-error counter at zero and the
\* task_complete message of the task appended to the outbox; the task stays
\* completed and is never executed again.
C26_SuccessCompletesTaskOnce ==
  /\ []((pc \in {"rotate", "sleep"} /\ cur # 0 /\ CliSucceeded(cur)) =>
          /\ tasks[cur].status = "completed" /\ ~tasks[cur].permanentlyFailed
          /\ consecutiveErrors = 0
          /\ \E i \in 1..Len(outbox) :
               outbox[i] = Msg("task_complete", "task_complete", cur, 0))
  /\ [][(pc = "spawn" /\ pc' = "await") => nExec[cur] = nFail[cur]]_vars

\* the step is a throw of an I/O operation of the cycle
Throws == faults' > faults

\* the steps of the success path, whose throws the inner catch takes
SuccessPath == {"succ_write", "succ_mark", "succ_report"}

\* C27: a throw inside a cycle never ends runBridge: it increments the
\* consecutive-error counter and leads to the poll sleep (for a throw of the
\* success path through the failure policy), after which the loop starts its
\* next cycle; runBridge ends only from the last step of the shutdown
\* sequence, with the shutdown_ack written and the signal file deleted.
C27_ThrowsStayInsideLoop ==
  /\ [][Throws => /\ consecutiveErrors' = consecutiveErrors + 1
                  /\ pc' = IF pc \in SuccessPath THEN "fail_sidecar" ELSE "sleep"]_vars
  /\ [](pc = "sleep" => ENABLED Sleep)
  /\ [][pc = "sleep" /\ pc' # pc => pc' = "check"]_vars
  /\ [][pc' = "done" /\ pc # "done" =>
          /\ pc = "sd_hb" /\ signal = "none"
          /\ \E i \in 1..Len(outbox) : outbox[i] = ShutdownAckMsg(sdRequest)]_vars

\* a cycle threw, the daemon slept and the next cycle is past its shutdown check
C27_Witness == faults = 1 /\ consecutiveErrors = 1 /\ pc = "hb_poll"

\* the positions of handleShutdown
ShutdownSteps == {"sd_kill", "sd_ack", "sd_sig", "sd_hb", "done"}

\* the daemon is on the path of the re-check that observed the signal (the
\* cycle-start check is made with no task claimed)
OnRecheckPath == cur # 0 /\ pc \in {"revert"} \cup ShutdownSteps

BuildsPrompt == pc = "prompt" /\ pc' = "spawn"

LeftInProgress(t) ==
  tasks[t].status = "in_progress" /\ (cur # t \/ pc = "sleep")

\* the outbox entries the step appended
AppendedEntries == {outbox'[i] : i \in (Len(outbox) + 1)..Len(outbox')}

\* C36: findNextTask returns only pending tasks; a task left in_progress by
\* a cycle that threw stays in_progress in every later step, is not executed
\* again and gets no outbox message.
C36_InProgressTaskIsNeverResumed ==
  /\ [](pc = "find" => (findNextTask = 0 \/ tasks[findNextTask].status = "pending"))
  /\ [][\A t \in TaskIds : LeftInProgress(t) =>
          /\ tasks'[t].status = "in_progress"
          /\ (cur' # t \/ pc' \in {"sleep", "check"})
          /\ nExec'[t] = nExec[t]
          /\ \A m \in AppendedEntries : m.taskId # t]_vars

\* after a cycle that left task 1 in_progress the daemon is idle
C36_Witness ==
  /\ tasks[1].status = "in_progress" /\ cur = 0
  /\ pc = "rotate" /\ idleNotified

\* the step is the rejection of the result promise
Rejects == pc = "await" /\ pc' = "fail_sidecar"

\* the step spawns a provider child
Spawns == pc = "spawn" /\ pc' = "await"

\* C37: while the daemon awaits a result the promise can reject with the
\* child still alive (a timed-out child was only sent SIGTERM), and every
\* rejection clears activeChild; a spawn is not held back by a child that is
\* still alive, so the next spawn brings the number of live children above
\* one.
C37_TimedOutChildMayOutliveRejection ==
  /\ []((pc = "await" /\ live <= MaxOrphans) =>
          ENABLED (CliRejects(FALSE) /\ live' = live /\ activeChild' = "null"))
  /\ [][Rejects => activeChild' = "null" /\ live' \in {live, live - 1}]_vars
  /\ [][Spawns => live' = live + 1 /\ activeChild' = "child"]_vars
  /\ []((pc = "spawn" /\ live >= 1) => ENABLED SpawnCli)

\* a second child runs while a timed-out one is still alive
C37_Witness == pc = "await" /\ live = 2 /\ activeChild = "child"

\* a pending task of the worker whose blockers have all failed permanently
BlockedOnlyByFailed(t) ==
  /\ tasks[t].status = "pending" /\ tasks[t].owner = Worker
  /\ tasks[t].blockedBy # {}
  /\ \A b \in tasks[t].blockedBy :
       tasks[b].status = "completed" /\ tasks[b].permanentlyFailed

\* C38: a permanently failed task counts as a resolved blocker: findNextTask
\* does not skip a pending task of the worker that is blocked only by such
\* tasks, it returns that task unless a task of lower id is claimable, and the
\* daemon goes on to mark it in_progress.
C38_PermanentlyFailedBlockerIsResolved ==
  /\ [](\A t \in TaskIds : BlockedOnlyByFailed(t) => Claimable(t))
  /\ [][(FindCall /\ \E t \in TaskIds : BlockedOnlyByFailed(t)) =>
          /\ cur' \in TaskIds /\ pc' = "mark"
          /\ \A t \in TaskIds : BlockedOnlyByFailed(t) => cur' <= t]_vars

\* task 2, blocked by the permanently failed task 1, is being executed
C38_Witness ==
  /\ tasks[1].status = "completed" /\ tasks[1].permanentlyFailed
  /\ tasks[2].blockedBy = {1} /\ cur = 2 /\ pc = "await" /\ nExec[2] = 1

\* the executions of the task that have not failed: at most the running one
Unfailed(t) == nExec[t] - nFail[t]

\* so far every execution has failed and no operation has thrown
OnlyFailures ==
  /\ faults = 0
  /\ \A t \in TaskIds :
       Unfailed(t) = (IF cur = t /\ pc = "await" THEN 1 ELSE 0)

\* the tasks that have been executed
Executed == {t \in TaskIds : nExec[t] > 0}

FailurePolicy == {"fail_sidecar", "fail_mark", "fail_perm_report", "fail_retry_report"}

\* the CLI execution of the current task has resolved and the step after it
\* (writing the output file, marking the task completed) is about to run
AfterCliSuccess == cur # 0 /\ pc \in {"succ_write", "succ_mark"}

\* C40: a throw of the output-file write or of updateTask(completed) after a
\* successful CLI execution is handled as a task failure: consecutiveErrors
\* is incremented and the failure policy is entered with nothing appended to
\* the outbox; the policy increments the sidecar retryCount, sets the task to
\* pending or to completed with permanentlyFailed, and appends no
\* task_complete for it.
C40_ThrowAfterSuccessIsTaskFailure ==
  /\ [][AfterCliSuccess /\ Throws =>
          /\ consecutiveErrors' = consecutiveErrors + 1
          /\ pc' = "fail_sidecar" /\ cur' = cur
          /\ outbox' = outbox /\ tasks' = tasks /\ sidecar' = sidecar]_vars
  /\ [][pc = "fail_sidecar" /\ ~Throws =>
          /\ sidecar'[cur] = sidecar[cur] + 1
          /\ pc' = "fail_mark"]_vars
  /\ [][pc = "fail_mark" /\ ~Throws =>
          /\ pc' \in {"fail_perm_report", "fail_retry_report"}
          /\ \/ tasks'[cur].status = "pending"
             \/ tasks'[cur].status = "completed" /\ tasks'[cur].permanentlyFailed]_vars
  /\ [][(pc \in FailurePolicy) =>
          (\A e \in AppendedEntries : e.kind # "task_complete")]_vars

\* the CLI runs a second time for a task whose first execution succeeded and
\* whose follow-up step threw
C40_Witness ==
  /\ faults = 1 /\ cur = 1 /\ pc = "await"
  /\ nExec[1] = 2 /\ nFail[1] = 0 /\ sidecar[1] = 1
  /\ nSent["task_complete"] = 0

\* ====================================================================
\* Properties of the inbox reader (SpecInbox)
\* ====================================================================

IsPrefix(s, t) == Len(s) <= Len(t) /\ s = SubSeq(t, 1, Len(s))

\* the records of a file that consists of newline-terminated records only
FileRecords(file) ==
  LET lines == split(file)
  IN [i \in 1..(Len(lines) - 1) |-> SubSeq(lines[i], 2, Len(lines[i]) - 1)]

\* a readNewInboxMessages call is made in this step
ReadCall == ibCalls' = ibCalls + 1

\* C9: while the inbox file has only been appended to with complete,
\* newline-terminated, well-formed records, the concatenated results of the
\* calls are a prefix of the file's records (none twice, none out of order), and
\* a call returns nothing only when every record of the file has been returned
\* (none omitted).
C9_EveryRecordDeliveredOnce ==
  /\ [](ibOnlyRecords => IsPrefix(ibDelivered, FileRecords(ibFile)))
  /\ [][(ibOnlyRecords /\ ReadCall /\ ibLast' = <<>>) =>
          ibDelivered = FileRecords(ibFile)]_vars

\* C10: after every readNewInboxMessages call the persisted cursor does not
\* exceed the size of the inbox file, and it is either unchanged or the offset
\* right after the newline that ends the last record the call returned.
C10_CursorOnRecordBoundary ==
  [][ReadCall =>
       /\ ibCursor' <= Len(ibFile)
       /\ \/ ibCursor' = ibCursor
          \/ /\ ibLast' # <<>>
             /\ ibCursor' > 0
             /\ ibFile[ibCursor'] = NL
    ]_vars

\* the line of the file that starts at byte offset k (k bytes precede it)
LineAt(file, k) ==
  LET ends == {e \in (k + 1)..Len(file) : file[e] = NL}
      stop == IF ends = {} THEN Len(file) + 1
              ELSE CHOOSE e \in ends : \A f \in ends : e <= f
  IN SubSeq(file, k + 1, stop - 1)

\* a non-blank line that JSON.parse rejects starts at byte offset k
MalformedLineAt(file, k) ==
  /\ k \in 0..(Len(file) - 1)
  /\ k = 0 \/ file[k] = NL
  /\ trim(LineAt(file, k)) # <<>>
  /\ ~JSONParses(LineAt(file, k))

\* C11: when the file holds a malformed line starting at byte offset k that the
\* cursor has not passed, a readNewInboxMessages call leaves the cursor at a
\* value <= k (so the next call observes the line again) and returns no more
\* records than there are lines between the cursor and k.
C11_CursorStopsAtMalformedLine ==
  [][ReadCall =>
       \A k \in 0..Len(ibFile) :
         (MalformedLineAt(ibFile, k) /\ ibCursor <= k) =>
           /\ ibCursor' <= k
           /\ Len(ibLast') <= Cardinality({i \in (ibCursor + 1)..k : ibFile[i] = NL})
    ]_vars

\* C12: the inbox file of SpecInbox is only appended to, so it never shrinks;
\* no readNewInboxMessages call persists a cursor below the one it found.
C12_CursorNeverDecreases ==
  [][ReadCall => ibCursor' >= ibCursor]_vars

\* ====================================================================
\* Properties of the inbox reader beside clearInbox and rotateInboxIfNeeded
\* (SpecInboxMaint)
\* ====================================================================

\* the records a call returns when it reads from offset 0
RecordsFromStart(file) ==
  lineLoop(split(SubSeq(file, 1, Min(Len(file), MAX_INBOX_READ_SIZE))),
           1, 0, <<>>, 0).messages

\* C13: a readNewInboxMessages call that finds the persisted cursor above the
\* size of the inbox file returns the well-formed records from offset 0 and
\* leaves a persisted cursor that is at most the file size, zero when the file
\* is empty.
C13_StaleCursorIsReset ==
  [][(ReadCall /\ ibCursor > Len(ibFile)) =>
       /\ ibLast' = RecordsFromStart(ibFile)
       /\ ibCursor' <= Len(ibFile)
       /\ ibFile = <<>> => ibCursor' = 0
    ]_vars

\* u can be obtained from l by dropping elements
RECURSIVE IsSubsequence(_, _)
IsSubsequence(u, l) ==
  IF u = <<>> THEN TRUE
  ELSE IF l = <<>> THEN FALSE
  ELSE IF Head(u) = Head(l) THEN IsSubsequence(Tail(u), Tail(l))
  ELSE IsSubsequence(u, Tail(l))

\* the records of the content the rotation read that no call had returned then
UndeliveredAtRotation ==
  SubSeq(FileRecords(ibSnapshot), ibSnapCount + 1, Len(FileRecords(ibSnapshot)))

\* what the calls have returned since the rotation read the file
DeliveredSinceRotation == SubSeq(ibDelivered, ibSnapCount + 1, Len(ibDelivered))

\* C14: the lead appends complete records, rotateInboxIfNeeded runs once beside
\* it and the worker reads afterwards.  When a call after the rotation returns
\* nothing (the worker has caught up), every record that was in the file when
\* the rotation read it and had not been returned before has been returned
\* since, in file order.
C14_RotationLosesNoMessage ==
  [][(ReadCall /\ ibLast' = <<>> /\ ibMaintPc = "none"
        /\ ibRotations = 1 /\ ibMaint = 1) =>
       IsSubsequence(UndeliveredAtRotation, DeliveredSinceRotation)
    ]_vars

\* ---------------------------------------------------- properties (SpecOutbox)

\* one call of rotateOutboxIfNeeded
OutboxRotateCall == obRotations' = obRotations + 1

\* the most recent n lines, in their order
LastLines(lines, n) == SubSeq(lines, Len(lines) - n + 1, Len(lines))

\* C15: for every maxLines >= 1, after rotateOutboxIfNeeded(maxLines) returns
\* the outbox holds at most maxLines lines; a file that had more than maxLines
\* lines then holds exactly its most recent floor(maxLines/2) lines in their
\* order, and a file that had at most maxLines lines is unchanged.
C15_RotationBoundsOutbox ==
  [][OutboxRotateCall =>
       /\ Len(obLines') <= obMaxLines
       /\ Len(obLines) > obMaxLines =>
            obLines' = LastLines(obLines, obMaxLines \div 2)
       /\ Len(obLines) <= obMaxLines => obLines' = obLines
    ]_vars

\* ---------------------------------------------------- properties (SpecClaim)

\* the re-read of t showed the task pending under this process's own marker
FreshShowsOwnClaim(t) ==
  /\ ftFresh[t].status = "pending"
  /\ ftFresh[t].claimedBy = Worker
  /\ ftFresh[t].claimPid = "self"

\* C16: findNextTask returns a task only after it wrote its own claim marker
\* to it and a later re-read showed it pending with this worker's name and
\* this process's pid; a task whose re-read showed anything else is never
\* the one returned.
C16_ReturnsOnlyVerifiedClaim ==
  /\ [](ftResult \in FtIds => ftResult \in ftClaimed /\ FreshShowsOwnClaim(ftResult))
  /\ [](\A t \in FtIds :
          (ftFresh[t] # FtNotReread /\ ~FreshShowsOwnClaim(t)) => ftResult # t)
  /\ [][\A t \in FtIds : ftFresh'[t] # ftFresh[t] => t \in ftClaimed]_vars

\* a re-read showed the marker of a second process of this worker's name on
\* the first candidate, and the call returned the next one
C16_Witness ==
  /\ ftPc = "done" /\ ftResult = 2
  /\ ftFresh[1].status = "pending"
  /\ ftFresh[1].claimedBy = Worker /\ ftFresh[1].claimPid = "other"

\* ------------------------------------- properties (SpecPrompt, SpecSanitize)

\* occurrences of the pattern in the string
Count(str, pattern) ==
  Cardinality({i \in 1..(Len(str) - Len(pattern) + 1) :
                 SubSeq(str, i, i + Len(pattern) - 1) = pattern})

\* C21: in the prompt, bare delimiter tags occur only as the framing of the
\* template: one TASK_SUBJECT pair, one TASK_DESCRIPTION pair and one
\* INBOX_MESSAGE pair per included message, whatever subject, description and
\* inbox messages contain.
C21_OnlyFramingTagsAreBare ==
  ptBuilt.built =>
    /\ Count(ptBuilt.result, OpenTag("TASK_SUBJECT")) = 1
    /\ Count(ptBuilt.result, CloseTag("TASK_SUBJECT")) = 1
    /\ Count(ptBuilt.result, OpenTag("TASK_DESCRIPTION")) = 1
    /\ Count(ptBuilt.result, CloseTag("TASK_DESCRIPTION")) = 1
    /\ Count(ptBuilt.result, OpenTag("INBOX_MESSAGE")) = Len(ptBuilt.parts)
    /\ Count(ptBuilt.result, CloseTag("INBOX_MESSAGE")) = Len(ptBuilt.parts)

\* the first assembly of the prompt is over the cap by this much
OverBy == Len(ptBuilt.first) - MAX_PROMPT_SIZE

\* C22: for every task, message list and configuration the prompt has at most
\* MAX_PROMPT_SIZE characters; when the first assembly is over the cap by n,
\* the description is shortened by exactly n characters and the prompt is the
\* template again, with subject and inbox block unchanged.
C22_PromptWithinCap ==
  ptBuilt.built =>
    /\ Len(ptBuilt.result) <= MAX_PROMPT_SIZE
    /\ OverBy > 0 =>
         /\ Len(ptBuilt.sanitizedDescription) = Len(ptBuilt.firstDescription) - OverBy
         /\ ptBuilt.sanitizedDescription =
              slice(ptBuilt.firstDescription, Len(ptBuilt.sanitizedDescription))
         /\ ptBuilt.result =
              promptTemplate(ptBuilt.sanitizedSubject, ptBuilt.sanitizedDescription,
                             ptConfig.workingDirectory, ptBuilt.inboxContext)

\* the part of every message of the cycle, in arrival order
AllParts == [i \in 1..Len(ptMessages) |-> inboxPart(ptMessages[i])]

\* the characters of the parts together
RECURSIVE SumLen(_)
SumLen(parts) == IF parts = <<>> THEN 0 ELSE Len(Head(parts)) + SumLen(Tail(parts))

\* C23: the included messages are a prefix of the cycle's message list, in
\* arrival order; their parts together stay within MAX_INBOX_CONTEXT_SIZE; the
\* first message left out is one whose part would have gone over the cap, and
\* everything after it is left out as well; parts that together have one
\* character less than the cap are all included and no further message is.
C23_InboxPrefixWithinCap ==
  ptBuilt.built =>
    LET n == Len(ptBuilt.parts)
    IN  /\ n <= Len(ptMessages)
        /\ ptBuilt.parts = SubSeq(AllParts, 1, n)
        /\ SumLen(ptBuilt.parts) <= MAX_INBOX_CONTEXT_SIZE
        /\ n < Len(ptMessages) =>
             SumLen(SubSeq(AllParts, 1, n + 1)) > MAX_INBOX_CONTEXT_SIZE
        /\ \A k \in 0..Len(ptMessages) :
             SumLen(SubSeq(AllParts, 1, k)) = MAX_INBOX_CONTEXT_SIZE - 1 => n = k
        /\ Len(ptMessages) > 0 =>
             /\ ptBuilt.inboxContext = <<"text">> \o join(ptBuilt.parts) \o <<NL>>
             /\ Count(ptBuilt.result, ptBuilt.inboxContext) = 1

\* the second of three messages does not fit and the third, which would have
\* fitted after the first, is dropped with it
C23_Witness ==
  /\ ptBuilt.built /\ Len(ptMessages) = 3 /\ Len(ptBuilt.parts) = 1
  /\ Len(AllParts[1]) + Len(AllParts[3]) <= MAX_INBOX_CONTEXT_SIZE

\* C24: sanitizePromptContent(content, maxLength) has min(len(content),
\* maxLength) characters: content of exactly maxLength characters keeps its
\* length, content of maxLength + 1 characters is cut to maxLength; applying
\* the function to its own result gives that result again.
C24_SanitizeLengthAndIdempotence ==
  /\ Len(spOut) >= 1 =>
       /\ Len(spOut[1]) = Min(Len(spContent), spMaxLength)
       /\ Len(spContent) = spMaxLength => Len(spOut[1]) = Len(spContent)
       /\ Len(spContent) = spMaxLength + 1 => Len(spOut[1]) = spMaxLength
  /\ Len(spOut) = 2 => spOut[2] = spOut[1]

\* a content one character over maxLength that carries a delimiter tag has
\* been cut and escaped, and the function has been applied to the result
C24_Witness ==
  /\ Len(spOut) = 2
  /\ Len(spContent) = spMaxLength + 1
  /\ spOut[1] # slice(spContent, spMaxLength)

\* ---------------------------------------------------- properties (SpecSpawn)

\* the promise is not settled and this step emits the event
FirstEvent(e) == ~scSettled /\ e \notin scEvents /\ e \in scEvents'

\* the promise is settled once and for all, and nothing after it has an effect
SettlesAtMostOnce ==
  /\ [](scSettlements <= 1)
  /\ [](scSettled <=> scResult # Pending)
  /\ [][scSettled =>
          (scResult' = scResult /\ scSettlements' = scSettlements
             /\ scKills' = scKills)]_vars

\* timer, spawn error and stdin error, when they come first
FailureRules ==
  /\ [][(~scSettled /\ scTimer' = "fired") =>
          (scResult' = [state |-> "rejected", value |-> <<"timeout">>]
             /\ scKills' = scKills + 1)]_vars
  /\ [][FirstEvent("stdin") =>
          (scResult' = [state |-> "rejected", value |-> <<"stdin">>]
             /\ scKills' = scKills + 1)]_vars
  /\ [][FirstEvent("error") => scResult'.state = "rejected"]_vars

\* C25 as stated: the promise settles exactly once; a close that comes first
\* resolves with the parsed response when the exit code is 0 or stdout is
\* non-empty and rejects carrying stderr otherwise; the timer and a stdin
\* error reject and send SIGTERM; later events have no effect.
C25_CloseWithAnyStdoutResolves ==
  /\ SettlesAtMostOnce /\ FailureRules /\ <>scSettled
  /\ [][FirstEvent("close") =>
          IF scCode' = "0" \/ scStdout # <<>>
            THEN scResult' = [state |-> "resolved",
                              value |-> response(scProvider, scStdout)]
            ELSE scResult'.state = "rejected"]_vars

\* C25, amended: as above, but a close that comes first resolves when the exit
\* code is 0 or stdout holds a character that is not whitespace, and rejects,
\* carrying the exit code and stderr, when the code is not 0 and stdout is
\* empty or whitespace only.
C25_PromiseSettlesOnce ==
  /\ SettlesAtMostOnce /\ FailureRules /\ <>scSettled
  /\ [][FirstEvent("close") =>
          IF scCode' = "0" \/ trim(scStdout) # <<>>
            THEN scResult' = [state |-> "resolved",
                              value |-> response(scProvider, scStdout)]
            ELSE /\ scResult'.state = "rejected"
                 /\ scResult'.value =
                      <<"exit", scCode'>> \o (IF scStderr # <<>> THEN scStderr
                                                                 ELSE <<"No output">>)
                 /\ scKills' = scKills]_vars

\* the child wrote only whitespace and closed with a non-zero code before any
\* other event: the promise is rejected
C25_Witness ==
  /\ scSettled /\ scCode = "1" /\ scEvents = {"close"} /\ scTimer = "cleared"
  /\ scStdout # <<>> /\ trim(scStdout) = <<>>
  /\ scResult.state = "rejected"


\* ====================================================================
\* Properties of validateResolvedPath (SpecPath)
\* ====================================================================

\* the segments of a path after resolution
Segments(path) == normalizeSegments(splitPath(path), <<>>)

\* the candidate lies strictly within the base: the segments of the base are
\* a proper prefix of the segments of the candidate
StrictlyWithin(candidate, base) ==
  /\ Len(Segments(candidate)) > Len(Segments(base))
  /\ SubSeq(Segments(candidate), 1, Len(Segments(base))) = Segments(base)

\* C28: validateResolvedPath throws exactly for the candidates that do not
\* lie strictly within the base (the base itself and every path outside it),
\* and so accepts a candidate whose first segment below the base only begins
\* with two dots.
C28_ThrowsExactlyOutsideBase ==
  vpResult # "unset" =>
    (vpResult = "throws" <=> ~StrictlyWithin(vpResolvedPath, vpExpectedBase))

\* ====================================================================
\* Properties of updateTask (SpecUpdate)
\* ====================================================================

\* the value of a field of a document: that of its last member with the key
fieldOf(pairs, key) ==
  IF \E i \in 1..Len(pairs) : pairs[i].key = key
    THEN pairs[CHOOSE i \in 1..Len(pairs) :
                 /\ pairs[i].key = key
                 /\ \A j \in (i + 1)..Len(pairs) : pairs[j].key # key].value
    ELSE "absent"

\* the updates give the key a value that is not undefined
Patched(key) ==
  \E i \in 1..Len(utUpdates) :
    utUpdates[i].key = key /\ utUpdates[i].value # "undefined"

\* C29: an updateTask call that returns has set every field whose update is
\* not undefined to the value of the update and has left every other field
\* of the task document, known to the daemon or not, as it was; until the call
\* returns the task file is as it was; for a missing or malformed task file
\* the call throws without writing the task file or a temporary file.
C29_UpdateTaskMergesPatch ==
  /\ utPc = "done" =>
       /\ utFile.kind = "json"
       /\ \A k \in Keys :
            fieldOf(utFile.pairs, k) =
              IF Patched(k) THEN fieldOf(utUpdates, k) ELSE fieldOf(utBefore.pairs, k)
  /\ utPc # "done" => utFile = utBefore
  /\ utBefore.kind # "json" =>
       utPc \in {"read", "threw"} /\ utTmp = NoFile /\ utFile = utBefore

\* a call has returned that changed the status, was given an undefined value
\* for the unknown field and found that field in the file
C29_Witness ==
  /\ utPc = "done"
  /\ fieldOf(utBefore.pairs, "x") = "v1"
  /\ fieldOf(utUpdates, "x") = "undefined"
  /\ fieldOf(utBefore.pairs, "status") = "v1"
  /\ fieldOf(utFile.pairs, "status") = "v2"

\* ====================================================================
\* Properties of normalizeClaudeLaunchArgs (SpecArgs)
\* ====================================================================

PermissionFlags == {MADMAX_FLAG, YOLO_FLAG, CLAUDE_BYPASS_FLAG}

\* how often the argument occurs in the list
Occurrences(list, arg) == Cardinality({i \in 1..Len(list) : list[i] = arg})

\* the arguments that are none of the three flags, in their order
OtherArgs(list) == SelectSeq(list, LAMBDA a : a \notin PermissionFlags)

\* C30: the result of normalizeClaudeLaunchArgs has the bypass flag exactly
\* once when the arguments have one of the three permission flags and not at
\* all otherwise, has neither --madmax nor --yolo, and has the other
\* arguments in their original order; normalising the result again gives the
\* same list.
C30_NormalizeArgs ==
  /\ Len(naOut) >= 1 =>
       /\ Occurrences(naOut[1], CLAUDE_BYPASS_FLAG) =
            (IF \E i \in 1..Len(naArgs) : naArgs[i] \in PermissionFlags THEN 1 ELSE 0)
       /\ Occurrences(naOut[1], MADMAX_FLAG) = 0
       /\ Occurrences(naOut[1], YOLO_FLAG) = 0
       /\ OtherArgs(naOut[1]) = OtherArgs(naArgs)
  /\ Len(naOut) = 2 => naOut[2] = naOut[1]

\* the function was applied twice to arguments with --madmax, two bypass
\* flags and another argument
C30_Witness ==
  /\ Len(naOut) = 2
  /\ Occurrences(naArgs, MADMAX_FLAG) = 1
  /\ Occurrences(naArgs, CLAUDE_BYPASS_FLAG) = 2
  /\ OtherArgs(naArgs) # <<>>

\* ====================================================================
\* Properties of two daemon processes at one task (SpecRace)
\* ====================================================================

\* findNextTask of the process has returned the task
Accepted(p) == rcPc[p] \in {"mark_read", "mark_write", "execute"}

\* C31: of two processes with the same worker name that run the claim
\* protocol on the same pending task, at most one accepts the task, in every
\* interleaving of their claim writes, re-reads and in_progress updates.
C31_AtMostOneProcessAccepts ==
  \A p, q \in Pids : (Accepted(p) /\ Accepted(q)) => p = q

\* ====================================================================
\* Properties of two updateTask calls (SpecInterleave)
\* ====================================================================

\* the updates of the caller give the key a value that is not undefined
PatchedBy(c, key) ==
  \E i \in 1..Len(ilUpdates[c]) :
    ilUpdates[c][i].key = key /\ ilUpdates[c][i].value # "undefined"

\* C32: while two updateTask calls with updates of different fields
\* interleave, the task file always holds a complete document, and when both
\* have returned the document has the values of both updates.
C32_InterleavedUpdatesBothKept ==
  /\ ilFile.kind = "json"
  /\ (\A c \in Callers : ilPc[c] = "done") =>
       \A c \in Callers : \A k \in Keys :
         PatchedBy(c, k) => fieldOf(ilFile.pairs, k) = fieldOf(ilUpdates[c], k)

====
